---- MODULE Spec2Model ----
(***************************************************************************)
(* A model of the bespoke-ed editor pipeline: the Input loop               *)
(* (src/src/input.rs), the Control loop (src/src/control.rs), the command  *)
(* channel between them, the shared Mode (`State`) and the document tree   *)
(* rooted at Root (src/src/primatives.rs); the LayoutZipper cursor of      *)
(* src/src/zipper.rs over a tree of shared nodes; the highlight tasks and  *)
(* the child-list mutators of src/src/primatives.rs.                       *)
(*                                                                         *)
(* Indices are 0-based as in the Rust source; Seq accesses add 1.          *)
(***************************************************************************)
EXTENDS Naturals, Sequences, FiniteSets, Bags, TLC

VARIABLES
    mode,        \* *state : State, the RwLock<State> shared by all loops
    root,        \* *root  : Root, the RwLock<Root> (area, split_dir, children)
    queue,       \* commands in flight on the unbounded channel input_tx -> input_rx
    inputPc,     \* position of the Input task: "check", "poll", "resize", "translate", "done"
    event,       \* the `event` local of the Input task (NoEvent when none is held)
    controlPc,   \* position of the Control task: "recv" or "done"
    zipper,      \* the `zipper` local of the Control task: path from Root to the focus
    nSent,       \* number of commands the Input task has sent so far
    sentLog,     \* history: the commands sent, in order (kept by LogSpec only)
    appliedLog,  \* history: the commands Control applied, in order (kept by LogSpec only)
    heap,        \* the shared nodes (ARW<Layout>, ARW<Line>, ARW<Span>, ARW<Char>) a LayoutZipper walks
    lz,          \* the LayoutZipper its user holds
    call,        \* the last method called on the zipper, the tree or a child list, with its arguments
    outcome,     \* what that call returned: "Moved", "DidntMove", "Ok", "Panic", or "None" before any call
    nCalls,      \* number of try_add_child calls, or of navigations, made so far
    tasks,       \* the highlight tasks spawned with tokio::spawn that have not run yet
    hlFocus,     \* the node navigation highlighted last, as a path from Root (Option)
    target,      \* the Text, Line, Root or Window whose child list an add_* method edits
    render,      \* one async_render call in progress: the tasks it spawned and what it collected
    mainProg,    \* the program of main.rs: app_state, its two channels, the positions of its two threads
    lockState    \* the RwLocks of the nodes, or of a FlipFlop with its flag and buffers, and the tasks taking them

\* The Input / Control pipeline without its tree, the pipeline, and the
\* zipper, highlight and child-list state.
pipeRest == <<mode, queue, inputPc, event, controlPc, zipper, nSent, sentLog, appliedLog>>
pipeVars == <<mode, root, queue, inputPc, event, controlPc, zipper, nSent, sentLog, appliedLog>>
unitVars == <<heap, lz, call, outcome, nCalls, tasks, hlFocus, target>>
\* The state of the render tasks, of main.rs and of the locks.
extVars == <<render, mainProg, lockState>>

vars == <<mode, root, queue, inputPc, event, controlPc, zipper, nSent, sentLog, appliedLog,
          heap, lz, call, outcome, nCalls, tasks, hlFocus, target,
          render, mainProg, lockState>>

(***************************************************************************)
(* Bounds of the model.                                                    *)
(***************************************************************************)
\* Commands the Input loop may send in one run.
MaxSent == 9
\* Commands that may wait on the channel at once.
MaxQueue == 2
\* Commands the Input loop may send in one run that keeps the two histories.
MaxLogSent == 3
\* The largest small index handed to daughter, move_to_child and try_add_child.
MaxIndex == 2
\* try_add_child calls in one run.
MaxAdds == 1
\* Navigations in one run of the highlight tasks.
MaxNav == 2
\* The longest child list add_line / add_span is applied to.
MaxLen == 3
\* Moves of main.rs' Zipper in one run (every move nests one more breadcrumb).
MaxMoves == 4
\* Events the input_listener of tui.rs reads in one run.
MaxEvents == 3
\* The largest scroll_offset and height of a Text that is rendered.
MaxScroll == 2
MaxHeight == 3

Min(a, b) == IF a <= b THEN a ELSE b

(***************************************************************************)
(* primatives.rs: the document tree.                                       *)
(***************************************************************************)
Rect(x, y, w, h) == [x |-> x, y |-> y, width |-> w, height |-> h]

\* s.split_inclusive(sep): the pieces of s, each ending with its separator
\* (the last piece may lack one); no piece for the empty string.
RECURSIVE SplitFrom(_, _, _)
SplitFrom(s, sep, acc) ==
    IF s = <<>> THEN (IF acc = <<>> THEN <<>> ELSE <<acc>>)
    ELSE IF Head(s) = sep
         THEN <<Append(acc, Head(s))>> \o SplitFrom(Tail(s), sep, <<>>)
         ELSE SplitFrom(Tail(s), sep, Append(acc, Head(s)))

SplitInclusive(s, sep) == SplitFrom(s, sep, <<>>)

\* Style::default() and the style highlight() writes: bg = White, fg = Black.
DefaultStyle == [bg |-> "None", fg |-> "None"]
HighlightStyle == [bg |-> "White", fg |-> "Black"]

\* Char { char, style }
NewChar(ch) == [kind |-> "Char", char |-> ch, style |-> DefaultStyle]

\* Span::raw
SpanRaw(content) ==
    [kind |-> "Span", characters |-> [i \in 1..Len(content) |-> NewChar(content[i])]]

\* Line::raw
LineRaw(input) ==
    LET pieces == SplitInclusive(input, " ")
    IN [kind |-> "Line", spans |-> [i \in 1..Len(pieces) |-> SpanRaw(pieces[i])]]

\* Text::raw
TextRaw(input) ==
    LET pieces == SplitInclusive(input, "\n")
    IN [kind |-> "Text", scroll_offset |-> 0, height |-> 0,
        lines |-> [i \in 1..Len(pieces) |-> LineRaw(pieces[i])]]

\* Window::new
WindowNew(split_dir, area) ==
    [kind |-> "Window", area |-> area, split_dir |-> split_dir, children |-> <<>>]

\* Root::new
RootNew(split_dir, area) ==
    [kind |-> "Root", area |-> area, split_dir |-> split_dir, children |-> <<>>]

\* children.drain(index..) of a Vec: panics when index > len.
DrainFrom(s, index) == SubSeq(s, index + 1, Len(s))
KeepBefore(s, index) == SubSeq(s, 1, index)

\* The first statement of add_window: the window is pushed when index >= len.
PushedWhenPastEnd(old, w, index) ==
    IF index >= Len(old) THEN Append(old, w) ELSE old

\* The child list add_window leaves (Root and Window run the same
\* statements): after that push, a window is put at index in a clone of the
\* list, and the clone replaces the list.
AddWindowToList(old, w, index) ==
    LET c1 == PushedWhenPastEnd(old, w, index)
    IN KeepBefore(c1, index) \o <<w>> \o DrainFrom(c1, index)

\* Vec::drain(index..) panics when index is past the end of the list it
\* drains.
AddWindowPanics(old, w, index) == index > Len(PushedWhenPastEnd(old, w, index))

\* Root::add_window
RootAddWindow(r, split_dir, index) ==
    [r EXCEPT !.children = AddWindowToList(@, WindowNew(split_dir, r.area), index)]

\* Window::add_window
WindowAddWindow(w, split_dir, index) ==
    [w EXCEPT !.children = AddWindowToList(@, WindowNew(split_dir, w.area), index)]

\* The child list Window::add_text leaves: the text is pushed when
\* index >= len (the else branch edits a clone that is dropped).
AddTextToList(old, text, index) ==
    IF index >= Len(old) THEN Append(old, text) ELSE old

\* Window::add_text: the text takes the window's height.
WindowAddText(w, content, index) ==
    LET text == [TextRaw(content) EXCEPT !.height = w.area.height]
    IN [w EXCEPT !.children = AddTextToList(@, text, index)]

\* The children of a node, whatever its kind (Node::get_children in zipper.rs
\* lists the same fields).
ChildrenOf(n) ==
    CASE n.kind = "Root"   -> n.children
      [] n.kind = "Window" -> n.children
      [] n.kind = "Text"   -> n.lines
      [] n.kind = "Line"   -> n.spans
      [] n.kind = "Span"   -> n.characters
      [] OTHER             -> <<>>

\* The node a path of child indices leads to.
RECURSIVE NodeAt(_, _)
NodeAt(n, path) ==
    IF path = <<>> THEN n ELSE NodeAt(ChildrenOf(n)[Head(path) + 1], Tail(path))

\* All characters below a node, left to right.
RECURSIVE CharsOf(_)
RECURSIVE CharsOfAll(_)
CharsOfAll(ns) == IF ns = <<>> THEN <<>> ELSE CharsOf(Head(ns)) \o CharsOfAll(Tail(ns))
CharsOf(n) == IF n.kind = "Char" THEN <<n.char>> ELSE CharsOfAll(ChildrenOf(n))

\* The file content handed to the Text constructor: "ab c\nd".
InitContent == <<"a", "b", " ", "c", "\n", "d">>
InitArea == Rect(0, 0, 80, 24)

\* The tree after construction: a Root, add_window(_, 0) on it, and the file's
\* text added to the first window.
InitRoot ==
    LET r == RootAddWindow(RootNew("Vertical", InitArea), "Vertical", 0)
    IN [r EXCEPT !.children[1] = WindowAddText(r.children[1], InitContent, 0)]

(***************************************************************************)
(* input.rs: events, commands and the three key handlers.                  *)
(***************************************************************************)
\* crossterm events.  A key event carries its code, the character of a
\* KeyCode::Char and whether its own modifiers hold CONTROL.
KeyChar(ch)   == [type |-> "Key", code |-> "Char", ch |-> ch, ctrl |-> FALSE, cols |-> 0, rows |-> 0]
KeyCode(code) == [type |-> "Key", code |-> code, ch |-> "", ctrl |-> FALSE, cols |-> 0, rows |-> 0]
CtrlKey(code) == [type |-> "Key", code |-> code, ch |-> "", ctrl |-> TRUE, cols |-> 0, rows |-> 0]
Resize(c, r)  == [type |-> "Resize", code |-> "", ch |-> "", ctrl |-> FALSE, cols |-> c, rows |-> r]
FocusLost     == [type |-> "FocusLost", code |-> "", ch |-> "", ctrl |-> FALSE, cols |-> 0, rows |-> 0]
NoEvent       == [type |-> "NoEvent", code |-> "", ch |-> "", ctrl |-> FALSE, cols |-> 0, rows |-> 0]

\* The characters the terminal may deliver: every bound letter, `q`, and a
\* printable letter bound in no mode.
Letters == {"i", "t", "h", "j", "k", "l", "a", "m", "q", "X"}
ResizeSizes == {<<40, 10>>, <<20, 5>>}

Events ==
    {KeyChar(ch) : ch \in Letters}
    \cup {KeyCode("Esc"), KeyCode("Enter"), KeyCode("Backspace"), KeyCode("Delete"),
          CtrlKey("Enter"), FocusLost}
    \cup {Resize(sz[1], sz[2]) : sz \in ResizeSizes}

\* enum Command; NoCommand stands for Option::None.
Cmd(op)    == [op |-> op, ch |-> ""]
Insert(ch) == [op |-> "Insert", ch |-> ch]
NoCommand  == Cmd("None")

\* `mod_keys` of input_thread_init: created empty, never pushed to.
mod_keys == {}

\* `ctrl` in handle_insert / handle_travel: a control key is in mod_keys.
CtrlHeld(mk) == \E k \in mk : k \in {"LeftControl", "RightControl"}

\* handle_normal with the quit command bound to `q` instead of Esc.
handle_normal_quit_on_q(mk, input) ==
    IF input.type # "Key" THEN NoCommand
    ELSE IF input.code # "Char" THEN NoCommand
    ELSE CASE input.ch = "q" -> Cmd("ShutDown")
           [] input.ch = "i" -> Cmd("InsertMode")
           [] input.ch = "t" -> Cmd("TravelMode")
           [] input.ch = "h" -> Cmd("PrevChar")
           [] input.ch = "j" -> Cmd("PrevLine")
           [] input.ch = "k" -> Cmd("NextLine")
           [] input.ch = "l" -> Cmd("NextChar")
           [] OTHER          -> NoCommand

\* handle_normal
handle_normal(mk, input) ==
    IF input.type # "Key" THEN NoCommand
    ELSE IF input.code = "Esc" THEN Cmd("ShutDown")
    ELSE IF input.code # "Char" THEN NoCommand
    ELSE CASE input.ch = "i" -> Cmd("InsertMode")
           [] input.ch = "t" -> Cmd("TravelMode")
           [] input.ch = "h" -> Cmd("PrevChar")
           [] input.ch = "j" -> Cmd("PrevLine")
           [] input.ch = "k" -> Cmd("NextLine")
           [] input.ch = "l" -> Cmd("NextChar")
           [] OTHER          -> NoCommand

\* handle_insert
handle_insert(mk, input) ==
    LET ctrl == CtrlHeld(mk)
    IN IF input.type # "Key" THEN NoCommand
       ELSE IF input.code = "Esc" THEN Cmd("NormalMode")
       ELSE IF input.code # "Char" THEN NoCommand
       ELSE CASE input.ch = "t" /\ ctrl -> Cmd("TravelMode")
              [] input.ch = "h" /\ ctrl -> Cmd("PrevChar")
              [] input.ch = "j" /\ ctrl -> Cmd("PrevLine")
              [] input.ch = "k" /\ ctrl -> Cmd("NextLine")
              [] input.ch = "l" /\ ctrl -> Cmd("NextChar")
              [] OTHER                  -> Insert(input.ch)

\* handle_travel
handle_travel(mk, input) ==
    LET ctrl == CtrlHeld(mk)
    IN IF input.type # "Key" THEN NoCommand
       ELSE IF input.code = "Esc" THEN Cmd("NormalMode")
       ELSE IF input.code # "Char" THEN NoCommand
       ELSE CASE input.ch = "i" /\ ctrl -> Cmd("ToFirstChild")
              [] input.ch = "k" -> Cmd("ToParent")
              [] input.ch = "h" -> Cmd("ToLeftSibling")
              [] input.ch = "l" -> Cmd("ToRightSibling")
              [] input.ch = "j" -> Cmd("ToFirstChild")
              [] input.ch = "a" -> Cmd("ToLastChild")
              [] input.ch = "m" -> Cmd("ToMiddleChild")
              [] OTHER          -> NoCommand

\* The `match *state.read().await` of input_thread_init, for a mode other
\* than ShutDown.
Translate(m, mk, input) ==
    CASE m = "Normal" -> handle_normal(mk, input)
      [] m = "Insert" -> handle_insert(mk, input)
      [] m = "Travel" -> handle_travel(mk, input)

\* A channel that hands out the newest message first.
SendFront(q, msg) == <<msg>> \o q

\* input_tx.send(msg): the message joins the back of the channel.
Send(q, msg) == Append(q, msg)

\* input_rx.recv(): the message at the front of the channel.
RecvMsg(q) == Head(q)
RecvRest(q) == Tail(q)

\* A history grows only in the runs that keep it.
Logged(log, msg, logging) == IF logging THEN Append(log, msg) ELSE log

(***************************************************************************)
(* The zipper the Control loop holds (DynZipper / RootZipper).  Its        *)
(* implementation is not among the source files; the four methods the      *)
(* loop calls are modelled from the specification's section 4.2: a zipper  *)
(* is the path from Root to its focus.                                     *)
(***************************************************************************)
\* RootZipper::new(root): focused on Root.
RootZipperNew == <<>>

\* child(index): the index-th child, clamped to the last; self on a node
\* without children.
ZipChild(r, z, index) ==
    LET n == Len(ChildrenOf(NodeAt(r, z)))
    IN IF n = 0 THEN z ELSE Append(z, Min(index, n - 1))

\* parent(): the immediate parent; Root returns itself.
ZipParent(z) == IF z = <<>> THEN z ELSE SubSeq(z, 1, Len(z) - 1)

\* The number of siblings of the focus, itself included.
ZipSiblings(r, z) == Len(ChildrenOf(NodeAt(r, ZipParent(z))))

\* move_left(): the previous sibling; self at the first one.
ZipMoveLeft(z) ==
    IF z = <<>> \/ z[Len(z)] = 0 THEN z ELSE [z EXCEPT ![Len(z)] = @ - 1]

\* move_right(): the next sibling; self at the last one.
ZipMoveRight(r, z) ==
    IF z = <<>> \/ z[Len(z)] + 1 >= ZipSiblings(r, z) THEN z
    ELSE [z EXCEPT ![Len(z)] = @ + 1]

(***************************************************************************)
(* control.rs: the effect of one command, arm by arm.                      *)
(***************************************************************************)
\* What the match in control_thread_init writes to *state.
ControlMode(m, msg) ==
    CASE msg.op = "NormalMode" -> "Normal"
      [] msg.op = "InsertMode" -> "Insert"
      [] msg.op = "TravelMode" -> "Travel"
      [] msg.op = "ShutDown"   -> "ShutDown"
      [] OTHER                 -> m

\* What the match in control_thread_init assigns to `zipper`.
ControlZipper(r, z, msg) ==
    CASE msg.op = "ToFirstChild"   -> ZipChild(r, z, 0)
      [] msg.op = "ToParent"       -> ZipParent(z)
      [] msg.op = "ToLeftSibling"  -> ZipMoveLeft(z)
      [] msg.op = "ToRightSibling" -> ZipMoveRight(r, z)
      [] OTHER                     -> z

\* What the match in control_thread_init does to the tree: no arm touches it.
ControlTree(r, z, msg) == r

\* The Resize arm with width and height exchanged.
ResizeAreaSwapped(columns, rows) == Rect(0, 0, rows, columns)

\* The area the Input loop writes on Event::Resize(columns, rows).
ResizeArea(columns, rows) == Rect(0, 0, columns, rows)

(***************************************************************************)
(* zipper.rs: the nodes a LayoutZipper walks.  A Node is a shared          *)
(* reference (ARW<..>); the model names each one by its key in `heap`.     *)
(***************************************************************************)
\* Option<T>: None is the empty sequence, Some(x) the one-element sequence.
None == <<>>
Some(x) == <<x>>
UnwrapOr(opt, default) == IF opt = None THEN default ELSE opt[1]

\* The elements of a sequence.
Range(s) == {s[i] : i \in 1..Len(s)}

\* The four kinds of Node.  A Layout holds LayoutType::Container { layouts }
\* or LayoutType::Content(text); `kids` is layouts, text.lines, spans or
\* characters, and scroll_offset / height are those of the Text.
LayoutContainer(layouts) ==
    [kind |-> "Layout", ltype |-> "Container", style |-> DefaultStyle,
     kids |-> layouts, scroll_offset |-> 0, height |-> 0]
LayoutContent(lines, height) ==
    [kind |-> "Layout", ltype |-> "Content", style |-> DefaultStyle,
     kids |-> lines, scroll_offset |-> 0, height |-> height]
LineNode(spans) ==
    [kind |-> "Line", ltype |-> "", style |-> DefaultStyle,
     kids |-> spans, scroll_offset |-> 0, height |-> 0]
SpanNode(characters) ==
    [kind |-> "Span", ltype |-> "", style |-> DefaultStyle,
     kids |-> characters, scroll_offset |-> 0, height |-> 0]
CharNode ==
    [kind |-> "Char", ltype |-> "", style |-> DefaultStyle,
     kids |-> <<>>, scroll_offset |-> 0, height |-> 0]

\* The tree the zipper starts on.  Node 1 is the root Layout, a container of
\* a two-line Text shown one line at a time, an empty container and a Text
\* with one empty line; nodes 15 to 18 are not in the tree: one node of each
\* kind that a caller may hand to try_add_child.
RootNode == 1
InitHeap ==
    <<LayoutContainer(<<2, 3, 4>>),
      LayoutContent(<<5, 6>>, 1),
      LayoutContainer(<<>>),
      LayoutContent(<<7>>, 1),
      LineNode(<<8, 9>>),
      LineNode(<<10>>),
      LineNode(<<>>),
      SpanNode(<<11, 12>>),
      SpanNode(<<13>>),
      SpanNode(<<14>>),
      CharNode, CharNode, CharNode, CharNode,
      LayoutContainer(<<>>), LineNode(<<>>), SpanNode(<<>>), CharNode>>
SpareNodes == {15, 16, 17, 18}

\* Node::get_children: None for a Char, the child list otherwise.
get_children(h, n) == IF h[n].kind = "Char" THEN None ELSE Some(h[n].kids)

\* Node::highlight and Node::no_highlight.
NodeHighlight(h, n) == [h EXCEPT ![n].style = HighlightStyle]
NodeNoHighlight(h, n) == [h EXCEPT ![n].style = DefaultStyle]

\* `self.focus.no_highlight();` and `result.inner_mut().focus.highlight();`
\* build the future of an async fn and drop it without .await: the body
\* never runs and the nodes keep the state they had.
NotAwaited(h, effect) == h

(***************************************************************************)
(* zipper.rs: LayoutZipper and MoveResult.                                 *)
(***************************************************************************)
Breadcrumb(z, direction) == [zipper |-> z, direction |-> direction]

Moved(z)     == [tag |-> "Moved", zip |-> z]
DidntMove(z) == [tag |-> "DidntMove", zip |-> z]

\* usize::MAX, the index left_sister_or_cousin descends with, at the width
\* of the model's integers.
usize_MAX == 2147483647

\* LayoutZipper::new
LayoutZipperNew(h, rootNode) ==
    [previous |-> None, focus |-> rootNode, children |-> get_children(h, rootNode)[1],
     left |-> <<>>, right |-> <<>>]

\* mother() that steps back to the previous zipper whatever its direction.
mother_to_previous(z) ==
    IF z.previous = None THEN DidntMove(z) ELSE Moved(z.previous[1].zipper)

\* Zipper for LayoutZipper: mother
RECURSIVE mother(_)
mother(z) ==
    IF z.previous = None THEN DidntMove(z)
    ELSE LET prev == z.previous[1]
         IN IF prev.direction = "Parent" THEN Moved(prev.zipper)
            ELSE mother(prev.zipper)

\* Zipper for LayoutZipper: prev
prev(z) == IF z.previous = None THEN None ELSE Some(z.previous[1].zipper)

\* LayoutZipper::move_to_prev; its two highlight futures are never awaited.
move_to_prev(z) == Some(prev(z)[1])

\* daughter() that lands on the first child when the index is past the end.
daughter_first_past_end(h, z, index) ==
    LET len   == Len(z.children)
        k     == IF index >= len THEN 0 ELSE index
        focus == z.children[k + 1]
    IN IF len = 0 THEN DidntMove(z)
       ELSE Moved([previous |-> Some(Breadcrumb(z, "Parent")),
                   focus    |-> focus,
                   children |-> UnwrapOr(get_children(h, focus), <<>>),
                   left     |-> SubSeq(z.children, 1, k),
                   right    |-> SubSeq(z.children, k + 2, len)])

\* Zipper for LayoutZipper: daughter
daughter(h, z, index) ==
    LET len   == Len(z.children)
        k     == IF index >= len THEN len - 1 ELSE index
        focus == z.children[k + 1]
    IN IF len = 0 THEN DidntMove(z)
       ELSE Moved([previous |-> Some(Breadcrumb(z, "Parent")),
                   focus    |-> focus,
                   children |-> UnwrapOr(get_children(h, focus), <<>>),
                   left     |-> SubSeq(z.children, 1, k),
                   right    |-> SubSeq(z.children, k + 2, len)])

\* left_sister() that does not put the old focus in front of `right`.
left_sister_forgets_focus(h, z) ==
    IF z.previous # None /\ z.previous[1].direction = "Left"
    THEN Moved(move_to_prev(z)[1])
    ELSE IF z.left = <<>> THEN DidntMove(z)
    ELSE LET focus == z.left[Len(z.left)]
         IN Moved([previous |-> Some(Breadcrumb(z, "Right")),
                   focus    |-> focus,
                   children |-> UnwrapOr(get_children(h, focus), <<>>),
                   left     |-> SubSeq(z.left, 1, Len(z.left) - 1),
                   right    |-> z.right])

\* Zipper for LayoutZipper: left_sister
left_sister(h, z) ==
    IF z.previous # None /\ z.previous[1].direction = "Left"
    THEN Moved(move_to_prev(z)[1])
    ELSE IF z.left = <<>> THEN DidntMove(z)
    ELSE LET focus == z.left[Len(z.left)]
         IN Moved([previous |-> Some(Breadcrumb(z, "Right")),
                   focus    |-> focus,
                   children |-> UnwrapOr(get_children(h, focus), <<>>),
                   left     |-> SubSeq(z.left, 1, Len(z.left) - 1),
                   right    |-> <<z.focus>> \o z.right])

\* right_sister() that wraps around to the first sibling at the last one.
right_sister_wrapping(h, z) ==
    IF z.previous # None /\ z.previous[1].direction = "Right"
    THEN Moved(move_to_prev(z)[1])
    ELSE IF z.right = <<>> /\ z.left = <<>> THEN DidntMove(z)
    ELSE LET all   == z.left \o <<z.focus>> \o z.right
             focus == IF z.right = <<>> THEN all[1] ELSE Head(z.right)
         IN Moved([previous |-> Some(Breadcrumb(z, "Left")),
                   focus    |-> focus,
                   children |-> UnwrapOr(get_children(h, focus), <<>>),
                   left     |-> IF z.right = <<>> THEN <<>> ELSE Append(z.left, z.focus),
                   right    |-> IF z.right = <<>> THEN Tail(all) ELSE Tail(z.right)])

\* right_sister() that does not push the old focus onto `left`.
right_sister_forgets_focus(h, z) ==
    IF z.previous # None /\ z.previous[1].direction = "Right"
    THEN Moved(move_to_prev(z)[1])
    ELSE IF z.right = <<>> THEN DidntMove(z)
    ELSE LET focus == Head(z.right)
         IN Moved([previous |-> Some(Breadcrumb(z, "Left")),
                   focus    |-> focus,
                   children |-> UnwrapOr(get_children(h, focus), <<>>),
                   left     |-> z.left,
                   right    |-> Tail(z.right)])

\* Zipper for LayoutZipper: right_sister
right_sister(h, z) ==
    IF z.previous # None /\ z.previous[1].direction = "Right"
    THEN Moved(move_to_prev(z)[1])
    ELSE IF z.right = <<>> THEN DidntMove(z)
    ELSE LET focus == Head(z.right)
         IN Moved([previous |-> Some(Breadcrumb(z, "Left")),
                   focus    |-> focus,
                   children |-> UnwrapOr(get_children(h, focus), <<>>),
                   left     |-> Append(z.left, z.focus),
                   right    |-> Tail(z.right)])

\* Zipper for LayoutZipper: right_aunt and left_aunt
right_aunt(h, z) ==
    LET og      == z
        result  == mother(z)
        result2 == right_sister(h, result.zip)
    IN IF result.tag = "DidntMove" THEN DidntMove(og)
       ELSE IF result2.tag = "DidntMove" THEN DidntMove(og)
       ELSE result2

left_aunt(h, z) ==
    LET og      == z
        result  == mother(z)
        result2 == left_sister(h, result.zip)
    IN IF result.tag = "DidntMove" THEN DidntMove(og)
       ELSE IF result2.tag = "DidntMove" THEN DidntMove(og)
       ELSE result2

\* right_cousin() that hands back the aunt when she has no children.
right_cousin_keeps_aunt(h, z, index) ==
    LET og     == z
        result == right_aunt(h, z)
    IN IF result.tag = "DidntMove" THEN DidntMove(og)
       ELSE daughter(h, result.zip, index)

\* Zipper for LayoutZipper: right_cousin and left_cousin
right_cousin(h, z, index) ==
    LET og      == z
        result  == right_aunt(h, z)
        result2 == daughter(h, result.zip, index)
    IN IF result.tag = "DidntMove" THEN DidntMove(og)
       ELSE IF result2.tag = "DidntMove" THEN DidntMove(og)
       ELSE result2

left_cousin(h, z, index) ==
    LET og      == z
        result  == left_aunt(h, z)
        result2 == daughter(h, result.zip, index)
    IN IF result.tag = "DidntMove" THEN DidntMove(og)
       ELSE IF result2.tag = "DidntMove" THEN DidntMove(og)
       ELSE result2

\* Zipper for LayoutZipper: left_sister_or_cousin and right_sister_or_cousin
left_sister_or_cousin(h, z) ==
    LET og     == z
        sister == left_sister(h, z)
    IN IF sister.tag = "Moved" THEN sister ELSE left_cousin(h, og, usize_MAX)

right_sister_or_cousin(h, z) ==
    LET og     == z
        sister == right_sister(h, z)
    IN IF sister.tag = "Moved" THEN sister ELSE right_cousin(h, og, 0)

\* Zipper for MoveResult: daughter
ResultDaughter(h, result, index) ==
    IF result.tag = "DidntMove" THEN result ELSE daughter(h, result.zip, index)

\* Inserting a child in a child list at min(index, len), as the containers'
\* add_child / try_add_child do.
InsertAt(kids, child, index) ==
    LET m == Min(index, Len(kids))
    IN SubSeq(kids, 1, m) \o <<child>> \o SubSeq(kids, m + 1, Len(kids))

\* Arc::new(RwLock::new(value)): a node of its own holding the value, and
\* the nodes with it.
ArcNewRef(h) == Len(h) + 1
ArcNew(h, value) == Append(h, value)

\* child.read().await.clone(): the value behind the Arc is copied, and the
\* callee stores the copy behind an Arc of its own.
ClonedForTree(h, child) == [ref |-> ArcNewRef(h), heap |-> ArcNew(h, h[child])]

\* Layout::try_add_child: a Container takes a Layout, a Content takes a Line;
\* the other combination is a type mismatch and leaves the Layout as it was.
LayoutTryAddChild(h, mom, child, index) ==
    IF \/ h[mom].ltype = "Container" /\ h[child].kind = "Layout"
       \/ h[mom].ltype = "Content" /\ h[child].kind = "Line"
    THEN LET c == ClonedForTree(h, child)
         IN [ok |-> TRUE, heap |-> [c.heap EXCEPT ![mom].kids = InsertAt(@, c.ref, index)]]
    ELSE [ok |-> FALSE, heap |-> h]

\* Line::add_child and Span::add_child
AddChild(h, mom, child, index) ==
    LET c == ClonedForTree(h, child)
    IN [ok |-> TRUE, heap |-> [c.heap EXCEPT ![mom].kids = InsertAt(@, c.ref, index)]]

\* Node::try_add_child: Ok or Err, and the nodes afterwards.  Each arm
\* passes child.read().await.clone().
NodeTryAddChild(h, mom, child, index) ==
    LET pair == <<h[mom].kind, h[child].kind>>
    IN CASE pair = <<"Layout", "Layout">> -> LayoutTryAddChild(h, mom, child, index)
         [] pair = <<"Layout", "Line">>   -> LayoutTryAddChild(h, mom, child, index)
         [] pair = <<"Line", "Span">>     -> AddChild(h, mom, child, index)
         [] pair = <<"Span", "Char">>     -> AddChild(h, mom, child, index)
         [] OTHER                         -> [ok |-> FALSE, heap |-> h]

\* LayoutZipper::try_add_child: the Result of Node::try_add_child is
\* unwrapped, so an Err panics; otherwise the child joins the children
\* snapshot at min(index, len) and Ok(()) is returned.
ZipperTryAddChild(h, z, child, index) ==
    LET r == NodeTryAddChild(h, z.focus, child, index)
    IN IF ~r.ok THEN [outcome |-> "Panic", heap |-> r.heap, zip |-> z]
       ELSE [outcome |-> "Ok", heap |-> r.heap,
             zip |-> [z EXCEPT !.children = InsertAt(@, child, index)]]

\* LayoutZipper::add_child: the node is pushed when index >= len; otherwise
\* the snapshot becomes children[0..index], the node, children[index + 1..len].
ZipperAddChild(z, node, index) ==
    LET len == Len(z.children)
    IN IF index >= len
       THEN [z EXCEPT !.children = Append(@, node)]
       ELSE [z EXCEPT !.children = SubSeq(@, 1, index) \o <<node>> \o SubSeq(@, index + 2, len)]

\* MoveResult::unwrap: the zipper of either variant.
MoveResultUnwrap(result) == result.zip

(***************************************************************************)
(* primatives.rs: highlight / no_highlight of the AsyncWidget impls, and   *)
(* the child-list mutators Text::add_line and Line::add_span.              *)
(***************************************************************************)
\* A node with its child list replaced.
WithChildren(n, kids) ==
    CASE n.kind = "Root"   -> [n EXCEPT !.children = kids]
      [] n.kind = "Window" -> [n EXCEPT !.children = kids]
      [] n.kind = "Text"   -> [n EXCEPT !.lines = kids]
      [] n.kind = "Line"   -> [n EXCEPT !.spans = kids]
      [] n.kind = "Span"   -> [n EXCEPT !.characters = kids]

\* The tree below n with the style of the Char at `path` written.
RECURSIVE SetStyle(_, _, _)
SetStyle(n, path, style) ==
    IF path = <<>> THEN [n EXCEPT !.style = style]
    ELSE WithChildren(n, [ChildrenOf(n) EXCEPT
                            ![Head(path) + 1] = SetStyle(@, Tail(path), style)])

\* A spawned task: highlight() or no_highlight() on the node at `path`.
Task(op, path) == [op |-> op, path |-> path]

\* tokio::spawn of one task per child of the node at `path`.
SpawnForChildren(r, t, op, path) ==
    LET n == Len(ChildrenOf(NodeAt(r, path)))
    IN t (+) [k \in {Task(op, Append(path, i)) : i \in 0..(n - 1)} |-> 1]

\* highlight() / no_highlight() awaited on the node at `path`: a Char takes
\* its write lock and sets its style; a Span spawns one task per character
\* and a Line one task per span, and both return without joining them; the
\* other widgets keep the trait's empty default.
WidgetCall(r, t, op, path) ==
    LET kind == NodeAt(r, path).kind
    IN CASE kind = "Char" ->
              [root  |-> SetStyle(r, path, IF op = "highlight" THEN HighlightStyle
                                           ELSE DefaultStyle),
               tasks |-> t]
         [] kind \in {"Span", "Line"} ->
              [root |-> r, tasks |-> SpawnForChildren(r, t, op, path)]
         [] OTHER -> [root |-> r, tasks |-> t]

\* The paths of all nodes at or below the node n, which sits at `path`.
RECURSIVE PathsBelow(_, _)
PathsBelow(n, path) ==
    {path} \cup UNION {PathsBelow(ChildrenOf(n)[i + 1], Append(path, i))
                         : i \in 0..(Len(ChildrenOf(n)) - 1)}

\* The Char, Span and Line nodes navigation can focus.
Focusable(r) == {p \in PathsBelow(r, <<>>) : NodeAt(r, p).kind \in {"Char", "Span", "Line"}}

\* Text::add_line and Line::add_span on the child list `old`: the tail from
\* min(index, len) is drained into a local Vec, the new child is pushed, the
\* local Vec is appended (Vec::append moves its elements out and leaves it
\* empty) and at last the local Vec is assigned to the child list.
AddToList(old, new, index) ==
    LET len      == Len(old)
        m        == Min(index, len)
        drained  == SubSeq(old, m + 1, len)
        pushed   == Append(SubSeq(old, 1, m), new)
        appended == pushed \o drained
        emptied  == <<>>
    IN emptied

\* Text::add_line
TextAddLine(lines, line, index) == AddToList(lines, line, index)

\* Line::add_span
LineAddSpan(spans, span, index) == AddToList(spans, span, index)

(***************************************************************************)
(* The state machine.                                                      *)
(***************************************************************************)
\* The two loops before their first step, whatever the tree.
PipeRestInit ==
    /\ mode = "Normal"
    /\ queue = <<>>
    /\ inputPc = "check"
    /\ event = NoEvent
    /\ controlPc = "recv"
    /\ zipper = RootZipperNew
    /\ nSent = 0
    /\ sentLog = <<>>
    /\ appliedLog = <<>>

PipeInit ==
    /\ PipeRestInit
    /\ root = InitRoot

\* No call made yet, no highlight task spawned, no node focused by
\* navigation.
NoCall == [op |-> "none", index |-> 0, child |-> 0]

NoCallYet ==
    /\ call = NoCall
    /\ outcome = "None"
    /\ nCalls = 0
    /\ tasks = EmptyBag
    /\ hlFocus = None

\* No async_render call in progress, main.rs not started, no lock modelled.
Idle ==
    /\ render = None
    /\ mainProg = None
    /\ lockState = None

\* The two loops never build a LayoutZipper nor call add_line / add_span:
\* their runs start without nodes, zipper or child list.
Init ==
    /\ PipeInit
    /\ NoCallYet
    /\ Idle
    /\ heap = <<>>
    /\ lz = None
    /\ target = None

\* LayoutZipper::new on the root Layout of the tree of InitHeap.
ZipInit ==
    /\ PipeInit
    /\ NoCallYet
    /\ Idle
    /\ heap = InitHeap
    /\ lz = LayoutZipperNew(InitHeap, RootNode)
    /\ target = None
\* input.rs line 21: leave the loop (and drop input_tx) once Mode is ShutDown.
InputCheck ==
    /\ inputPc = "check"
    /\ inputPc' = IF mode = "ShutDown" THEN "done" ELSE "poll"
    /\ UNCHANGED <<mode, root, queue, event, controlPc, zipper, nSent, sentLog, appliedLog>>

\* input.rs line 24: poll(timeout) found no event.
InputPollTimeout ==
    /\ inputPc = "poll"
    /\ inputPc' = "check"
    /\ UNCHANGED <<mode, root, queue, event, controlPc, zipper, nSent, sentLog, appliedLog>>

\* input.rs lines 24-32: poll(timeout) found an event and it is read; only a
\* Resize has the first match await the Root's write lock.
InputPollEvent(limit) ==
    /\ inputPc = "poll"
    /\ nSent < limit
    /\ Len(queue) < MaxQueue
    /\ \E e \in Events :
        /\ event' = e
        /\ inputPc' = IF e.type = "Resize" THEN "resize" ELSE "translate"
    /\ UNCHANGED <<mode, root, queue, controlPc, zipper, nSent, sentLog, appliedLog>>

\* input.rs line 30: root.write().await.area = Rect::new(0, 0, columns, rows).
InputResize ==
    /\ inputPc = "resize"
    /\ root' = [root EXCEPT !.area = ResizeArea(event.cols, event.rows)]
    /\ inputPc' = "translate"
    /\ UNCHANGED <<mode, queue, event, controlPc, zipper, nSent, sentLog, appliedLog>>

\* input.rs lines 34-43: read Mode, translate the event with that mode's
\* handler and send the command, if any.
InputTranslate(logging) ==
    /\ inputPc = "translate"
    /\ IF mode = "ShutDown"
       THEN /\ inputPc' = "done"
            /\ UNCHANGED <<queue, nSent, sentLog>>
       ELSE LET msg == Translate(mode, mod_keys, event)
            IN /\ inputPc' = "check"
               /\ IF msg # NoCommand
                  THEN /\ queue' = Send(queue, msg)
                       /\ nSent' = nSent + 1
                       /\ sentLog' = Logged(sentLog, msg, logging)
                  ELSE UNCHANGED <<queue, nSent, sentLog>>
    /\ event' = NoEvent
    /\ UNCHANGED <<mode, root, controlPc, zipper, appliedLog>>

\* control.rs lines 14-38: one iteration of the loop: receive a command and
\* run its arm.
ControlRecv(logging) ==
    /\ controlPc = "recv"
    /\ queue # <<>>
    /\ LET msg == RecvMsg(queue)
       IN /\ queue' = RecvRest(queue)
          /\ mode' = ControlMode(mode, msg)
          /\ zipper' = ControlZipper(root, zipper, msg)
          /\ root' = ControlTree(root, zipper, msg)
          /\ appliedLog' = Logged(appliedLog, msg, logging)
    /\ UNCHANGED <<inputPc, event, controlPc, nSent, sentLog>>

\* control.rs line 14: recv() returns None once the channel is empty and the
\* Input task has dropped its sender.
ControlExit ==
    /\ controlPc = "recv"
    /\ queue = <<>>
    /\ inputPc = "done"
    /\ controlPc' = "done"
    /\ UNCHANGED <<mode, root, queue, inputPc, event, zipper, nSent, sentLog, appliedLog>>

InputTask(limit, logging) ==
    /\ \/ InputCheck
       \/ InputPollTimeout
       \/ InputPollEvent(limit)
       \/ InputResize
       \/ InputTranslate(logging)
    /\ UNCHANGED unitVars
    /\ UNCHANGED extVars

ControlTask(logging) ==
    /\ ControlRecv(logging) \/ ControlExit
    /\ UNCHANGED unitVars
    /\ UNCHANGED extVars

Next == InputTask(MaxSent, FALSE) \/ ControlTask(FALSE)

Spec == Init /\ [][Next]_vars

\* The same program in shorter runs that keep the histories of the commands
\* sent and applied.
LogNext == InputTask(MaxLogSent, TRUE) \/ ControlTask(TRUE)

LogSpec == Init /\ [][LogNext]_vars

\* The runtime schedules both tasks fairly: a task that can take a step
\* eventually takes one.
FairSpec ==
    /\ Init
    /\ [][LogNext]_vars
    /\ WF_vars(InputTask(MaxLogSent, TRUE))
    /\ WF_vars(ControlTask(TRUE))

(***************************************************************************)
(* The LayoutZipper driven by its user, one method call per step.          *)
(***************************************************************************)
\* The indices a caller passes: small ones and usize::MAX.
Indices == (0..MaxIndex) \cup {usize_MAX}

\* A navigation method of the Zipper trait returns `result`.
ZipReturn(op, index, result) ==
    /\ outcome # "Panic"
    /\ lz' = result.zip
    /\ outcome' = result.tag
    /\ call' = [op |-> op, index |-> index, child |-> 0]
    /\ UNCHANGED <<heap, nCalls, tasks, hlFocus, target>>
    /\ UNCHANGED pipeVars
    /\ UNCHANGED extVars

\* One of the highlighting wrappers (zipper.rs lines 209-264) returns
\* `result`: no_highlight() on the old focus and highlight() on the new one
\* are called but not awaited.
ZipReturnHighlit(op, index, result) ==
    /\ outcome # "Panic"
    /\ lz' = result.zip
    /\ outcome' = result.tag
    /\ call' = [op |-> op, index |-> index, child |-> 0]
    /\ heap' = LET cleared == NotAwaited(heap, NodeNoHighlight(heap, lz.focus))
               IN NotAwaited(cleared, NodeHighlight(cleared, result.zip.focus))
    /\ UNCHANGED <<nCalls, tasks, hlFocus, target>>
    /\ UNCHANGED pipeVars
    /\ UNCHANGED extVars

Mother == ZipReturn("mother", 0, mother(lz))
Daughter == \E index \in Indices : ZipReturn("daughter", index, daughter(heap, lz, index))
LeftSister == ZipReturn("left_sister", 0, left_sister(heap, lz))
RightSister == ZipReturn("right_sister", 0, right_sister(heap, lz))
LeftSisterOrCousin == ZipReturn("left_sister_or_cousin", 0, left_sister_or_cousin(heap, lz))
RightSisterOrCousin == ZipReturn("right_sister_or_cousin", 0, right_sister_or_cousin(heap, lz))

MoveToChild ==
    \E index \in Indices : ZipReturnHighlit("move_to_child", index, daughter(heap, lz, index))
TryMoveLeft == ZipReturnHighlit("try_move_left", 0, left_sister(heap, lz))
TryMoveRight == ZipReturnHighlit("try_move_right", 0, right_sister(heap, lz))
GoBackToParent == ZipReturnHighlit("go_back_to_parent", 0, mother(lz))
MoveLeftOrCousin ==
    ZipReturnHighlit("move_left_or_cousin", 0, left_sister_or_cousin(heap, lz))
MoveRightOrCousin ==
    ZipReturnHighlit("move_right_or_cousin", 0, right_sister_or_cousin(heap, lz))

\* move_left_catch_ignore / move_right_catch_ignore: both call
\* try_move_right() and unwrap its MoveResult.
ZipReturnUnwrapped(op) ==
    /\ outcome # "Panic"
    /\ lz' = MoveResultUnwrap(right_sister(heap, lz))
    /\ outcome' = "Ok"
    /\ call' = [op |-> op, index |-> 0, child |-> 0]
    /\ heap' = LET cleared == NotAwaited(heap, NodeNoHighlight(heap, lz.focus))
               IN NotAwaited(cleared, NodeHighlight(cleared, lz'.focus))
    /\ UNCHANGED <<nCalls, tasks, hlFocus, target>>
    /\ UNCHANGED pipeVars
    /\ UNCHANGED extVars

MoveLeftCatchIgnore == ZipReturnUnwrapped("move_left_catch_ignore")
MoveRightCatchIgnore == ZipReturnUnwrapped("move_right_catch_ignore")

\* z.mother().daughter(i) with i the number of left siblings of z's focus.
MotherThenDaughter ==
    ZipReturn("mother.daughter", Len(lz.left),
              ResultDaughter(heap, mother(lz), Len(lz.left)))

\* The nodes that are in some child list.
InTree(h) == UNION {Range(h[n].kids) : n \in DOMAIN h}

\* zipper.try_add_child(child, index) with a node that is in no tree yet.
TryAddChild ==
    /\ outcome # "Panic"
    /\ nCalls < MaxAdds
    /\ \E child \in SpareNodes \ InTree(heap), index \in Indices :
        LET r == ZipperTryAddChild(heap, lz, child, index)
        IN /\ lz' = r.zip
           /\ heap' = r.heap
           /\ outcome' = r.outcome
           /\ call' = [op |-> "try_add_child", index |-> index, child |-> child]
    /\ nCalls' = nCalls + 1
    /\ UNCHANGED <<tasks, hlFocus, target>>
    /\ UNCHANGED pipeVars
    /\ UNCHANGED extVars

\* zipper.add_child(node, index) with a node that is in no tree yet.
AddChildCall ==
    /\ outcome # "Panic"
    /\ nCalls < MaxAdds
    /\ \E node \in SpareNodes \ InTree(heap), index \in Indices :
        /\ lz' = ZipperAddChild(lz, node, index)
        /\ call' = [op |-> "add_child", index |-> index, child |-> node]
    /\ outcome' = "Ok"
    /\ nCalls' = nCalls + 1
    /\ UNCHANGED <<heap, tasks, hlFocus, target>>
    /\ UNCHANGED pipeVars
    /\ UNCHANGED extVars

ZipNext ==
    \/ Mother
    \/ Daughter
    \/ LeftSister
    \/ RightSister
    \/ LeftSisterOrCousin
    \/ RightSisterOrCousin
    \/ MoveToChild
    \/ TryMoveLeft
    \/ TryMoveRight
    \/ GoBackToParent
    \/ MoveLeftOrCousin
    \/ MoveRightOrCousin
    \/ MotherThenDaughter
    \/ MoveLeftCatchIgnore
    \/ MoveRightCatchIgnore

ZipSpec == ZipInit /\ [][ZipNext]_vars

\* The same zipper with a user who also adds children to the focus.
GrowNext ==
    \/ Mother
    \/ Daughter
    \/ LeftSister
    \/ RightSister
    \/ TryAddChild
    \/ AddChildCall

GrowSpec == ZipInit /\ [][GrowNext]_vars

(***************************************************************************)
(* Navigation over the document tree calling the AsyncWidget highlight     *)
(* methods, and the runtime running the tasks they spawn in any order.     *)
(***************************************************************************)
\* Navigation moves the focus to the node at `path`: it awaits
\* no_highlight() on the old focus and then highlight() on the new one.
Navigate(limit) ==
    /\ nCalls < limit
    /\ \E path \in Focusable(root) :
        LET cleared == IF hlFocus = None THEN [root |-> root, tasks |-> tasks]
                       ELSE WidgetCall(root, tasks, "no_highlight", hlFocus[1])
            lit     == WidgetCall(cleared.root, cleared.tasks, "highlight", path)
        IN /\ root' = lit.root
           /\ tasks' = lit.tasks
           /\ hlFocus' = Some(path)
    /\ nCalls' = nCalls + 1
    /\ UNCHANGED <<heap, lz, call, outcome, target>>
    /\ UNCHANGED pipeRest

\* The runtime runs one of the spawned tasks to its end.
RunTask ==
    /\ \E t \in BagToSet(tasks) :
        LET r == WidgetCall(root, tasks (-) [k \in {t} |-> 1], t.op, t.path)
        IN /\ root' = r.root
           /\ tasks' = r.tasks
    /\ UNCHANGED <<heap, lz, call, outcome, nCalls, hlFocus, target>>
    /\ UNCHANGED pipeRest

HlNavigate == Navigate(MaxNav) /\ UNCHANGED extVars

HlRunTask == RunTask /\ UNCHANGED extVars

HlNext == HlNavigate \/ HlRunTask

HlSpec == Init /\ [][HlNext]_vars

(***************************************************************************)
(* Text::add_line and Line::add_span applied to any small child list.      *)
(***************************************************************************)
\* The references (ARW<Line>, ARW<Span>) a child list may hold, and the
\* child lists of up to MaxLen of them.
Refs == 1..MaxLen
ListsUpTo(n) == UNION {[1..m -> Refs] : m \in 0..n}

AddInit ==
    /\ PipeInit
    /\ NoCallYet
    /\ Idle
    /\ heap = <<>>
    /\ lz = None
    /\ target \in {[kind |-> k, kids |-> s] :
                        k \in {"Text", "Line", "Root", "Window"}, s \in ListsUpTo(MaxLen)}

\* text.add_line(line, index)
AddLine ==
    /\ call = NoCall
    /\ target.kind = "Text"
    /\ \E line \in Refs, index \in 0..(MaxLen + 1) :
        /\ target' = [target EXCEPT !.kids = TextAddLine(@, line, index)]
        /\ call' = [op |-> "add_line", index |-> index, child |-> line]
    /\ outcome' = "Ok"
    /\ UNCHANGED <<heap, lz, nCalls, tasks, hlFocus>>
    /\ UNCHANGED pipeVars
    /\ UNCHANGED extVars

\* line.add_span(span, index)
AddSpan ==
    /\ call = NoCall
    /\ target.kind = "Line"
    /\ \E span \in Refs, index \in 0..(MaxLen + 1) :
        /\ target' = [target EXCEPT !.kids = LineAddSpan(@, span, index)]
        /\ call' = [op |-> "add_span", index |-> index, child |-> span]
    /\ outcome' = "Ok"
    /\ UNCHANGED <<heap, lz, nCalls, tasks, hlFocus>>
    /\ UNCHANGED pipeVars
    /\ UNCHANGED extVars

\* The window or text an add_window / add_text call creates: it is none of
\* the children the list holds before the call.
NewRef == 0

\* The method add_window of `kind` called on the target: it panics in
\* drain, after the push, or it returns.
AddWindowCall(kind) ==
    /\ call = NoCall
    /\ target.kind = kind
    /\ \E index \in 0..(MaxLen + 1) :
        /\ IF AddWindowPanics(target.kids, NewRef, index)
           THEN /\ target' = [target EXCEPT !.kids = PushedWhenPastEnd(@, NewRef, index)]
                /\ outcome' = "Panic"
           ELSE /\ target' = [target EXCEPT !.kids = AddWindowToList(@, NewRef, index)]
                /\ outcome' = "Ok"
        /\ call' = [op |-> kind \o "::add_window", index |-> index, child |-> NewRef]
    /\ UNCHANGED <<heap, lz, nCalls, tasks, hlFocus>>
    /\ UNCHANGED pipeVars
    /\ UNCHANGED extVars

\* root.add_window(split_dir, index)
RootAddWindowCall == AddWindowCall("Root")

\* window.add_window(split_dir, index)
WindowAddWindowCall == AddWindowCall("Window")

\* window.add_text(content, index)
WindowAddTextCall ==
    /\ call = NoCall
    /\ target.kind = "Window"
    /\ \E index \in 0..(MaxLen + 1) :
        /\ target' = [target EXCEPT !.kids = AddTextToList(@, NewRef, index)]
        /\ call' = [op |-> "Window::add_text", index |-> index, child |-> NewRef]
    /\ outcome' = "Ok"
    /\ UNCHANGED <<heap, lz, nCalls, tasks, hlFocus>>
    /\ UNCHANGED pipeVars
    /\ UNCHANGED extVars

AddNext ==
    \/ AddLine
    \/ AddSpan
    \/ RootAddWindowCall
    \/ WindowAddWindowCall
    \/ WindowAddTextCall

AddSpec == AddInit /\ [][AddNext]_vars

(***************************************************************************)
(* main.rs: the Zipper over Rc<RefCell<Layout>> nodes, one method call per *)
(* step.                                                                    *)
(***************************************************************************)
\* A tree of main.rs Layouts: Containers 1, 2 and 4, the others Content.
MainHeap ==
    <<LayoutContainer(<<2, 3, 4>>),
      LayoutContainer(<<5, 6, 7>>),
      LayoutContent(<<>>, 0),
      LayoutContainer(<<>>),
      LayoutContent(<<>>, 0),
      LayoutContent(<<>>, 0),
      LayoutContent(<<>>, 0)>>

\* The `children` every move computes for its new focus: none for a
\* Content, the layouts of a Container.
layout_children(h, focus) ==
    IF h[focus].ltype = "Content" THEN <<>> ELSE h[focus].kids

\* ZipperMoveResult
Success(z) == [tag |-> "Success", zip |-> z]
Failed(z) == [tag |-> "Failed", zip |-> z]
\* An index past the end of a Vec or slice: the call panics.
Panicked(z) == [tag |-> "Panic", zip |-> z]

\* Zipper::move_to_child
zipper_move_to_child(h, z, index) ==
    IF index >= Len(z.children) THEN Failed(z)
    ELSE LET focus == z.children[index + 1]
         IN Success([previous |-> Some(Breadcrumb(z, "Parent")),
                     focus    |-> focus,
                     children |-> layout_children(h, focus),
                     left     |-> SubSeq(z.children, 1, index),
                     right    |-> SubSeq(z.children, index + 2, Len(z.children))])

\* Zipper::move_left
zipper_move_left(h, z) ==
    IF Len(z.left) = 0 THEN Failed(z)
    ELSE LET focus == z.left[Len(z.left)]
         IN Success([previous |-> Some(Breadcrumb(z, "Right")),
                     focus    |-> focus,
                     children |-> layout_children(h, focus),
                     left     |-> SubSeq(z.left, 1, Len(z.left) - 1),
                     right    |-> <<z.focus>> \o z.right])

\* Zipper::move_right: `right` is self.right[1..] and the focus is taken
\* from it, right[0], which panics when it is empty.
zipper_move_right(h, z) ==
    IF Len(z.right) = 0 THEN Failed(z)
    ELSE LET right == SubSeq(z.right, 2, Len(z.right))
         IN IF Len(right) = 0 THEN Panicked(z)
            ELSE LET focus == right[1]
                 IN Success([previous |-> Some(Breadcrumb(z, "Left")),
                             focus    |-> focus,
                             children |-> layout_children(h, focus),
                             left     |-> Append(z.left, z.focus),
                             right    |-> right])

\* Zipper::track_back_to_parent
RECURSIVE zipper_track_back_to_parent(_)
zipper_track_back_to_parent(z) ==
    IF z.previous = None THEN Failed(z)
    ELSE IF z.previous[1].direction = "Parent" THEN Success(z.previous[1].zipper)
    ELSE LET r == zipper_track_back_to_parent(z.previous[1].zipper)
         IN IF r.tag = "Success" THEN Success(r.zip) ELSE Panicked(z)

\* A Zipper on the root of MainHeap.
MainZipInit ==
    /\ PipeInit
    /\ NoCallYet
    /\ Idle
    /\ heap = MainHeap
    /\ lz = [previous |-> None, focus |-> RootNode, children |-> layout_children(MainHeap, RootNode),
             left |-> <<>>, right |-> <<>>]
    /\ target = None

\* A method of main.rs' Zipper returns `result`, or panics.
MainZipReturn(op, index, result) ==
    /\ outcome # "Panic"
    /\ nCalls < MaxMoves
    /\ lz' = result.zip
    /\ outcome' = result.tag
    /\ call' = [op |-> op, index |-> index, child |-> 0]
    /\ nCalls' = nCalls + 1
    /\ UNCHANGED <<heap, tasks, hlFocus, target>>
    /\ UNCHANGED pipeVars
    /\ UNCHANGED extVars

ZipperMoveToChild ==
    \E index \in 0..MaxIndex :
        MainZipReturn("Zipper::move_to_child", index, zipper_move_to_child(heap, lz, index))
ZipperMoveLeft == MainZipReturn("Zipper::move_left", 0, zipper_move_left(heap, lz))
ZipperMoveRight == MainZipReturn("Zipper::move_right", 0, zipper_move_right(heap, lz))
ZipperTrackBackToParent ==
    MainZipReturn("Zipper::track_back_to_parent", 0, zipper_track_back_to_parent(lz))

MainZipNext ==
    \/ ZipperMoveToChild
    \/ ZipperMoveLeft
    \/ ZipperMoveRight
    \/ ZipperTrackBackToParent

MainZipSpec == MainZipInit /\ [][MainZipNext]_vars

(***************************************************************************)
(* primatives.rs: one async_render call on a Root, Window, Text, Line or   *)
(* Span: it spawns one task per child in a JoinSet, takes their results in *)
(* the order in which they complete, and sorts them.                       *)
(***************************************************************************)
\* a - b on usize: with overflow checks (debug builds) a wrap panics
\* (None); without them (release builds) the result wraps around.
UsizeSub(a, b, overflow_checks) ==
    IF a >= b THEN Some(a - b)
    ELSE IF overflow_checks THEN None
    ELSE Some((usize_MAX - (b - a)) + 1)

\* The filter of Text::async_render on the 0-based line index i:
\* *i >= copy.scroll_offset && *i < copy.scroll_offset + copy.height - 1.
\* The right operand of && is only evaluated when the left one holds.
FilterPanics(t, i, overflow_checks) ==
    /\ i >= t.scroll_offset
    /\ UsizeSub(t.scroll_offset + t.height, 1, overflow_checks) = None

FilterKeeps(t, i, overflow_checks) ==
    /\ i >= t.scroll_offset
    /\ i < UsizeSub(t.scroll_offset + t.height, 1, overflow_checks)[1]

\* The key a spawned task returns with its render: LineNumber::new(i + 1)
\* for a line of a Text, the index i for the other kinds.
TaskKey(t, i) == IF t.kind = "Text" THEN i + 1 ELSE i

\* The keys of the tasks async_render spawns: one per child, for a Text one
\* per line the filter keeps.
SpawnedKeys(t, overflow_checks) ==
    IF t.kind = "Text"
    THEN {TaskKey(t, i) : i \in {j \in 0..(Len(t.kids) - 1) : FilterKeeps(t, j, overflow_checks)}}
    ELSE {TaskKey(t, i) : i \in 0..(Len(t.kids) - 1)}

\* The child a key stands for, and what its own async_render returns.
ChildOfKey(t, key) == IF t.kind = "Text" THEN t.kids[key] ELSE t.kids[key + 1]
Rendered(child) == [render_of |-> child]

\* sort_by on the key without the sort: the entries stay in the order in
\* which the tasks completed.
SortByKeyLeftAsIs(entries) == entries

\* children.sort_by(|a, b| a.0.cmp(&b.0)): a stable sort on the key.
RECURSIVE SortByKey(_)
SortByKey(entries) ==
    IF entries = <<>> THEN <<>>
    ELSE LET least == CHOOSE i \in 1..Len(entries) :
                        /\ \A j \in 1..Len(entries) : entries[i][1] <= entries[j][1]
                        /\ \A j \in 1..(i - 1) : entries[j][1] # entries[i][1]
         IN <<entries[least]>> \o
            SortByKey(SubSeq(entries, 1, least - 1) \o SubSeq(entries, least + 1, Len(entries)))

\* What async_render returns from the sorted entries: a Text keeps the
\* (LineNumber, LineRender) pairs, the other kinds keep the renders only.
RenderOf(t, sorted) ==
    IF t.kind = "Text" THEN sorted ELSE [k \in 1..Len(sorted) |-> sorted[k][2]]

\* A node before its async_render is called: any small child list, and for
\* a Text any small scroll_offset and height.
RenderInit ==
    /\ PipeInit
    /\ NoCallYet
    /\ render = None
    /\ mainProg = None
    /\ lockState = None
    /\ heap = <<>>
    /\ lz = None
    /\ target \in {[kind |-> k, kids |-> s, scroll_offset |-> 0, height |-> 0] :
                        k \in {"Root", "Window", "Line", "Span"}, s \in ListsUpTo(MaxLen)}
                 \cup {[kind |-> "Text", kids |-> s, scroll_offset |-> o, height |-> h] :
                        s \in ListsUpTo(MaxLen), o \in 0..MaxScroll, h \in 0..MaxHeight}

\* async_render up to its first join_next().await: the node is read and the
\* tasks are spawned; the filter of a Text may panic on the way.
RenderSpawn ==
    /\ render = None
    /\ \E overflow_checks \in BOOLEAN :
        IF /\ target.kind = "Text"
           /\ \E i \in 0..(Len(target.kids) - 1) : FilterPanics(target, i, overflow_checks)
        THEN /\ render' = [pc |-> "panicked", spawned |-> {}, pending |-> {},
                           collected |-> <<>>, result |-> <<>>]
             /\ outcome' = "Panic"
        ELSE /\ render' = [pc |-> "joining",
                           spawned |-> SpawnedKeys(target, overflow_checks),
                           pending |-> SpawnedKeys(target, overflow_checks),
                           collected |-> <<>>, result |-> <<>>]
             /\ outcome' = "Pending"
    /\ call' = [op |-> "async_render", index |-> 0, child |-> 0]
    /\ UNCHANGED <<heap, lz, nCalls, tasks, hlFocus, target, mainProg, lockState>>
    /\ UNCHANGED pipeVars

\* set.join_next().await yields the result of a task that has completed:
\* any of those still pending.
RenderJoinNext ==
    /\ render # None
    /\ render.pc = "joining"
    /\ \E key \in render.pending :
        render' = [render EXCEPT
                     !.pending = @ \ {key},
                     !.collected = Append(@, <<key, Rendered(ChildOfKey(target, key))>>)]
    /\ UNCHANGED <<heap, lz, call, outcome, nCalls, tasks, hlFocus, target, mainProg, lockState>>
    /\ UNCHANGED pipeVars

\* join_next() returns None: the entries are sorted and the render returned.
RenderReturn ==
    /\ render # None
    /\ render.pc = "joining"
    /\ render.pending = {}
    /\ render' = [render EXCEPT !.pc = "done",
                                !.result = RenderOf(target, SortByKey(render.collected))]
    /\ outcome' = "Ok"
    /\ UNCHANGED <<heap, lz, call, nCalls, tasks, hlFocus, target, mainProg, lockState>>
    /\ UNCHANGED pipeVars

RenderNext == RenderSpawn \/ RenderJoinNext \/ RenderReturn

RenderSpec == RenderInit /\ [][RenderNext]_vars

(***************************************************************************)
(* primatives.rs: async_render on the Root, one task per node, while       *)
(* navigation and its highlight tasks write styles.                        *)
(***************************************************************************)
\* A tree with one line of one span: "ab".
TearRoot ==
    LET r == RootAddWindow(RootNew("Vertical", InitArea), "Vertical", 0)
    IN [r EXCEPT !.children[1] = WindowAddText(r.children[1], <<"a", "b">>, 0)]

TearInit ==
    /\ PipeRestInit
    /\ root = TearRoot
    /\ NoCallYet
    /\ Idle
    /\ heap = <<>>
    /\ lz = None
    /\ target = None

\* History: the contents the tree has had since the render call began.
Observed(rd, r) ==
    IF rd # None /\ rd.pc = "joining" THEN [rd EXCEPT !.seen = @ \cup {r}] ELSE rd

TearNavigate ==
    /\ Navigate(MaxNav)
    /\ render' = Observed(render, root')
    /\ UNCHANGED <<mainProg, lockState>>

TearRunTask ==
    /\ RunTask
    /\ render' = Observed(render, root')
    /\ UNCHANGED <<mainProg, lockState>>

\* root.async_render() is called: its body has not taken a lock yet.
RootRenderCall ==
    /\ render = None
    /\ render' = [pc |-> "joining", pending |-> {<<>>}, snapshot |-> {}, seen |-> {root}]
    /\ UNCHANGED <<heap, lz, call, outcome, nCalls, tasks, hlFocus, target, mainProg, lockState>>
    /\ UNCHANGED pipeVars

\* The paths of the children whose render tasks the node at `path` spawns.
RenderChildren(r, path) ==
    LET n == NodeAt(r, path)
    IN {Append(path, i) : i \in {j \in 0..(Len(ChildrenOf(n)) - 1) :
                                    n.kind = "Text" => FilterKeeps(n, j, FALSE)}}

\* The async_render of the node at `path` takes its read lock: a Char
\* returns its clone, the other nodes spawn the tasks of their children and
\* wait for them.
RenderTaskRuns ==
    /\ render # None
    /\ render.pc = "joining"
    /\ \E path \in render.pending :
        LET n == NodeAt(root, path)
        IN render' = [render EXCEPT
                        !.pending = (@ \ {path}) \cup RenderChildren(root, path),
                        !.snapshot = IF n.kind = "Char" THEN @ \cup {<<path, n>>} ELSE @]
    /\ UNCHANGED <<heap, lz, call, outcome, nCalls, tasks, hlFocus, target, mainProg, lockState>>
    /\ UNCHANGED pipeVars

\* Every task has been joined: root.async_render() returns.
RootRenderReturn ==
    /\ render # None
    /\ render.pc = "joining"
    /\ render.pending = {}
    /\ render' = [render EXCEPT !.pc = "done"]
    /\ UNCHANGED <<heap, lz, call, outcome, nCalls, tasks, hlFocus, target, mainProg, lockState>>
    /\ UNCHANGED pipeVars

TearNext ==
    \/ TearNavigate
    \/ TearRunTask
    \/ RootRenderCall
    \/ RenderTaskRuns
    \/ RootRenderReturn

TearSpec == TearInit /\ [][TearNext]_vars

(***************************************************************************)
(* zipper.rs: the locks Node::try_add_child takes.  Two tasks call it on   *)
(* nodes of the tree of InitHeap; the only locks held across an .await are *)
(* write locks, so a lock is free or has one writer.                       *)
(***************************************************************************)
\* The tasks calling try_add_child, and the nodes they pass: the root, the
\* empty container, and the spare Layout, Line and Char.
Callers == {"t1", "t2"}
Moms == {1, 3}
Children == {1, 3, 15, 16, 18}

\* No call made by a task yet.
NoArgs == [mom |-> 0, child |-> 0, index |-> 0]

LockInit ==
    /\ PipeInit
    /\ NoCallYet
    /\ render = None
    /\ mainProg = None
    /\ heap = InitHeap
    /\ lz = None
    /\ target = None
    /\ lockState = [writer |-> [n \in Moms \cup Children |-> "free"],
                    pc     |-> [t \in Callers |-> "idle"],
                    args   |-> [t \in Callers |-> NoArgs]]

\* The arms of the match that take locks: the kinds of the pair fit.
TakesLocks(h, mom, child) ==
    <<h[mom].kind, h[child].kind>> \in
        {<<"Layout", "Layout">>, <<"Layout", "Line">>, <<"Line", "Span">>, <<"Span", "Char">>}

\* A task calls mom.try_add_child(child, index): the last arm returns Err
\* at once, the others go on to mom.write().await.
LockCall(t) ==
    /\ lockState.pc[t] = "idle"
    /\ \E mom \in Moms, child \in Children, index \in 0..MaxIndex :
        lockState' = [lockState EXCEPT
                        !.pc[t] = IF TakesLocks(heap, mom, child) THEN "mom.write" ELSE "done",
                        !.args[t] = [mom |-> mom, child |-> child, index |-> index]]
    /\ UNCHANGED <<heap, lz, call, outcome, nCalls, tasks, hlFocus, target, render, mainProg>>
    /\ UNCHANGED pipeVars

\* mom.write().await returns the write guard once the lock is free; the
\* guard lives to the end of the statement.
LockMomWrite(t) ==
    /\ lockState.pc[t] = "mom.write"
    /\ lockState.writer[lockState.args[t].mom] = "free"
    /\ lockState' = [lockState EXCEPT !.pc[t] = "child.read",
                                      !.writer[lockState.args[t].mom] = t]
    /\ UNCHANGED <<heap, lz, call, outcome, nCalls, tasks, hlFocus, target, render, mainProg>>
    /\ UNCHANGED pipeVars

\* child.read().await returns once the child has no writer; the clone is
\* added to mom and both guards are dropped.
LockChildRead(t) ==
    /\ lockState.pc[t] = "child.read"
    /\ lockState.writer[lockState.args[t].child] = "free"
    /\ heap' = NodeTryAddChild(heap, lockState.args[t].mom, lockState.args[t].child,
                             lockState.args[t].index).heap
    /\ lockState' = [lockState EXCEPT !.pc[t] = "done",
                                      !.writer[lockState.args[t].mom] = "free"]
    /\ UNCHANGED <<lz, call, outcome, nCalls, tasks, hlFocus, target, render, mainProg>>
    /\ UNCHANGED pipeVars

LockNext == \E t \in Callers : LockCall(t) \/ LockMomWrite(t) \/ LockChildRead(t)

LockSpec == LockInit /\ [][LockNext]_vars

(***************************************************************************)
(* main.rs: the main loop, and the input_listener thread of tui.rs, with   *)
(* the input channel and the quit channel between them.                    *)
(***************************************************************************)
\* crossterm events as main.rs tells them apart: a key with its character
\* and kind, or any other event.
MainKey(ch, kind) == [type |-> "Key", ch |-> ch, kind |-> kind]
OtherEvent == [type |-> "Other", ch |-> "", kind |-> ""]
MainEvents == {MainKey(ch, kind) : ch \in {"q", "j"}, kind \in {"Press", "Release"}}
                  \cup {OtherEvent}

\* handle_keys (Option<Msg>)
handle_keys(key) ==
    IF key.kind = "Press"
    THEN CASE key.ch = "j" -> Some("Increment")
           [] key.ch = "k" -> Some("Decrement")
           [] key.ch = "r" -> Some("Reset")
           [] key.ch = "q" -> Some("Quit")
           [] OTHER        -> None
    ELSE None

\* handle_events
handle_events(input) ==
    IF input.type = "Key" THEN handle_keys(input) ELSE None

\* update that has no arm for Msg::Quit.
update_ignoring_quit(app_state, msg) == app_state

\* update: of the Model, only app_state is ever written.
update(app_state, msg) ==
    IF msg = "Quit" THEN "Stop" ELSE app_state

\* main() up to its loop: both channels empty, the listener spawned.
MainInit ==
    /\ PipeInit
    /\ NoCallYet
    /\ render = None
    /\ lockState = None
    /\ heap = <<>>
    /\ lz = None
    /\ target = None
    /\ mainProg = [app_state |-> "Running", input |-> <<>>, quit |-> <<>>,
                   pc |-> "tick", listener |-> "check", nEvents |-> 0]

\* What a step of main.rs leaves unchanged.
MainFrame ==
    /\ UNCHANGED <<render, lockState>>
    /\ UNCHANGED unitVars
    /\ UNCHANGED pipeVars

\* main.rs lines 391-393: timeout_sleep and terminal.draw.
MainTick ==
    /\ mainProg.pc = "tick"
    /\ mainProg' = [mainProg EXCEPT !.pc = "drain"]
    /\ MainFrame

\* main.rs lines 396-400: one turn of `while let Ok(input) =
\* input_rx.try_recv()`, or its end when the channel is empty.
MainTryRecv ==
    /\ mainProg.pc = "drain"
    /\ IF mainProg.input = <<>>
       THEN mainProg' = [mainProg EXCEPT !.pc = "check"]
       ELSE LET msg == handle_events(Head(mainProg.input))
            IN mainProg' = [mainProg EXCEPT
                              !.input = Tail(@),
                              !.app_state = IF msg # None THEN update(@, msg[1]) ELSE @]
    /\ MainFrame

\* main.rs lines 402-405: on Stop send Quit and break, else loop.
MainCheckStop ==
    /\ mainProg.pc = "check"
    /\ IF mainProg.app_state = "Stop"
       THEN mainProg' = [mainProg EXCEPT !.quit = Append(@, "Quit"), !.pc = "teardown"]
       ELSE mainProg' = [mainProg EXCEPT !.pc = "tick"]
    /\ MainFrame

\* main.rs line 408: tui::teardown_app(), and main returns.
MainTeardown ==
    /\ mainProg.pc = "teardown"
    /\ mainProg' = [mainProg EXCEPT !.pc = "exited"]
    /\ MainFrame

\* tui.rs lines 47-49: break when quit_rx.try_recv() is Ok.
ListenerCheckQuit ==
    /\ mainProg.listener = "check"
    /\ IF mainProg.quit # <<>>
       THEN mainProg' = [mainProg EXCEPT !.quit = Tail(@), !.listener = "done"]
       ELSE mainProg' = [mainProg EXCEPT !.listener = "poll"]
    /\ MainFrame

\* tui.rs lines 50-51: poll(timeout) returns false after at most tick_rate.
ListenerPollTimeout ==
    /\ mainProg.listener = "poll"
    /\ mainProg' = [mainProg EXCEPT !.listener = "check"]
    /\ MainFrame

\* tui.rs lines 51-54: poll(timeout) returns true; the event is read and
\* sent on the input channel.
ListenerPollEvent ==
    /\ mainProg.listener = "poll"
    /\ mainProg.nEvents < MaxEvents
    /\ \E e \in MainEvents :
        mainProg' = [mainProg EXCEPT !.input = Append(@, e),
                                    !.nEvents = @ + 1,
                                    !.listener = "check"]
    /\ MainFrame

MainThread == MainTick \/ MainTryRecv \/ MainCheckStop \/ MainTeardown

ListenerThread == ListenerCheckQuit \/ ListenerPollTimeout \/ ListenerPollEvent

MainNext == MainThread \/ ListenerThread

MainSpec == MainInit /\ [][MainNext]_vars

\* Both are OS threads: each of them keeps running.
MainFairSpec ==
    /\ MainInit
    /\ [][MainNext]_vars
    /\ WF_vars(MainThread)
    /\ WF_vars(ListenerThread)

(***************************************************************************)
(* flipflop.rs: one FlipFlop<T> shared by writers and readers.  A value of *)
(* T is the set of the writers whose write it holds.  The write lock of    *)
(* the flag is taken and dropped within one statement, so between steps    *)
(* the flag has readers only; a buffer has one writer or some readers.     *)
(***************************************************************************)
Writers == {"w1", "w2"}
Readers == {"r1"}
Procs == Writers \cup Readers

\* The buffer the flag points readers to, and the one write() hands out.
ReadSource(flag) == IF flag = "Flip" THEN "flip" ELSE "flop"
WriteTarget(flag) == IF flag = "Flip" THEN "flop" ELSE "flip"
Flipped(flag) == IF flag = "Flip" THEN "Flop" ELSE "Flip"

\* *write_flip = read_flop.clone() without the assignment.
CopyKeepsOld(old, new) == old
\* *write_flip = read_flop.clone()
CopyInto(old, new) == new

\* FlipFlop::new(input): both buffers hold input, the flag is Flip.
FlipInit ==
    /\ PipeInit
    /\ NoCallYet
    /\ render = None
    /\ mainProg = None
    /\ heap = <<>>
    /\ lz = None
    /\ target = None
    /\ lockState = [flag   |-> "Flip",
                    buf    |-> [b \in {"flip", "flop"} |-> {}],
                    flagRd |-> {},
                    writer |-> [b \in {"flip", "flop"} |-> "free"],
                    bufRd  |-> [b \in {"flip", "flop"} |-> {}],
                    pc     |-> [p \in Procs |-> "idle"],
                    seen   |-> [p \in Procs |-> "Flip"],
                    got    |-> [p \in Procs |-> {}],
                    after  |-> [p \in Procs |-> {}],
                    prior  |-> [p \in Procs |-> {}]]

FlipFrame ==
    /\ UNCHANGED <<render, mainProg>>
    /\ UNCHANGED unitVars
    /\ UNCHANGED pipeVars

BufFree(b) == lockState.writer[b] = "free" /\ lockState.bufRd[b] = {}

\* The writers whose drop task has switched the flag.
Switched == {w \in Writers : lockState.pc[w] \in {"drop.own", "drop.read", "drop.copy", "done"}}

\* The writers whose write guard has been dropped.
Dropped == {w \in Writers : lockState.pc[w] \notin {"idle", "write.buf", "guard", "written"}}

\* write(), line 20: self.flag.read().await; the guard lives to the end of
\* the match.
WriteCall(w) ==
    /\ lockState.pc[w] = "idle"
    /\ lockState' = [lockState EXCEPT !.pc[w] = "write.buf",
                                      !.seen[w] = lockState.flag,
                                      !.prior[w] = Dropped,
                                      !.flagRd = @ \cup {w}]
    /\ FlipFrame

\* write(), lines 22 / 26: the write lock of the buffer readers are not
\* pointed to; the guard is returned and the flag's read guard dropped.
WriteLockBuffer(w) ==
    /\ lockState.pc[w] = "write.buf"
    /\ BufFree(WriteTarget(lockState.seen[w]))
    /\ lockState' = [lockState EXCEPT !.pc[w] = "guard",
                                      !.writer[WriteTarget(lockState.seen[w])] = w,
                                      !.flagRd = @ \ {w}]
    /\ FlipFrame

\* The holder of the write guard writes the buffer.
GuardWrite(w) ==
    /\ lockState.pc[w] = "guard"
    /\ lockState' = [lockState EXCEPT !.pc[w] = "written",
                                      !.buf[WriteTarget(lockState.seen[w])] = @ \cup {w}]
    /\ FlipFrame

\* drop(), line 62: the guard is dropped and the task spawned.
GuardDrop(w) ==
    /\ lockState.pc[w] = "written"
    /\ lockState' = [lockState EXCEPT !.pc[w] = "drop.flag"]
    /\ FlipFrame

\* The task, lines 63-68: the flag is read and its guard dropped, then the
\* buffer's write guard is dropped.
DropReadFlag(w) ==
    /\ lockState.pc[w] = "drop.flag"
    /\ LET held == CHOOSE b \in {"flip", "flop"} : lockState.writer[b] = w
       IN lockState' = [lockState EXCEPT !.pc[w] = "drop.setflag",
                                         !.seen[w] = lockState.flag,
                                         !.writer[held] = "free"]
    /\ FlipFrame

\* The task, lines 72 / 83: *self.0.flag.write().await = the other flag.
DropSetFlag(w) ==
    /\ lockState.pc[w] = "drop.setflag"
    /\ lockState.flagRd = {}
    /\ lockState' = [lockState EXCEPT !.pc[w] = "drop.own",
                                      !.flag = Flipped(lockState.seen[w])]
    /\ FlipFrame

\* The task, lines 74 / 84: the write lock of the buffer of the flag it
\* read.
DropLockOld(w) ==
    /\ lockState.pc[w] = "drop.own"
    /\ BufFree(ReadSource(lockState.seen[w]))
    /\ lockState' = [lockState EXCEPT !.pc[w] = "drop.read",
                                      !.writer[ReadSource(lockState.seen[w])] = w]
    /\ FlipFrame

\* The task, lines 76 / 85: self.0.read(), its flag.read().await.
DropReadCall(w) ==
    /\ lockState.pc[w] = "drop.read"
    /\ lockState' = [lockState EXCEPT !.pc[w] = "drop.copy",
                                      !.got[w] = {ReadSource(lockState.flag)},
                                      !.flagRd = @ \cup {w}]
    /\ FlipFrame

\* The task, lines 76-81 / 85-88: read() gets the read lock of the buffer
\* the flag pointed to; the old buffer is overwritten and the guards are
\* dropped.
DropCopy(w) ==
    /\ lockState.pc[w] = "drop.copy"
    /\ LET src == CHOOSE b \in {"flip", "flop"} : lockState.got[w] = {b}
           old == ReadSource(lockState.seen[w])
       IN /\ lockState.writer[src] = "free"
          /\ lockState' = [lockState EXCEPT
                             !.pc[w] = "done",
                             !.got[w] = {},
                             !.flagRd = @ \ {w},
                             !.writer[old] = "free",
                             !.buf[old] = CopyInto(@, lockState.buf[src])]
    /\ FlipFrame

\* read(), line 49: self.flag.read().await.
ReadCall(r) ==
    /\ lockState.pc[r] = "idle"
    /\ lockState' = [lockState EXCEPT !.pc[r] = "read.buf",
                                      !.seen[r] = lockState.flag,
                                      !.after[r] = Switched,
                                      !.flagRd = @ \cup {r}]
    /\ FlipFrame

\* read(), lines 50 / 51: the read lock of the buffer the flag points to;
\* the guard is returned and the flag's read guard dropped.
ReadLockBuffer(r) ==
    /\ lockState.pc[r] = "read.buf"
    /\ lockState.writer[ReadSource(lockState.seen[r])] = "free"
    /\ lockState' = [lockState EXCEPT
                       !.pc[r] = "reading",
                       !.got[r] = lockState.buf[ReadSource(lockState.seen[r])],
                       !.bufRd[ReadSource(lockState.seen[r])] = @ \cup {r},
                       !.flagRd = @ \ {r}]
    /\ FlipFrame

\* The FlipFlopReadGuard is dropped.
ReadDrop(r) ==
    /\ lockState.pc[r] = "reading"
    /\ lockState' = [lockState EXCEPT
                       !.pc[r] = "done",
                       !.bufRd[ReadSource(lockState.seen[r])] = @ \ {r}]
    /\ FlipFrame

WriterStep(w) ==
    \/ WriteCall(w)
    \/ WriteLockBuffer(w)
    \/ GuardWrite(w)
    \/ GuardDrop(w)
    \/ DropReadFlag(w)
    \/ DropSetFlag(w)
    \/ DropLockOld(w)
    \/ DropReadCall(w)
    \/ DropCopy(w)

ReaderStep(r) == ReadCall(r) \/ ReadLockBuffer(r) \/ ReadDrop(r)

FlipNext == (\E w \in Writers : WriterStep(w)) \/ (\E r \in Readers : ReaderStep(r))

FlipSpec == FlipInit /\ [][FlipNext]_vars

\* Fair scheduling: a caller or task that can go on does go on, and every
\* guard is dropped.
FlipFairSpec ==
    /\ FlipInit
    /\ [][FlipNext]_vars
    /\ \A w \in Writers : WF_vars(WriterStep(w))
    /\ \A r \in Readers : WF_vars(ReaderStep(r))

(***************************************************************************)
(* Steps of the two tasks, as seen in a pair of states.                    *)
(***************************************************************************)
\* The Input task ran lines 34-43 on the event it holds.
TranslateStep == inputPc = "translate" /\ inputPc' # "translate"

\* The Input task ran the Resize arm of line 30.
ResizeStep == inputPc = "resize" /\ inputPc' = "translate"

\* The Control task took the command at the front of the channel and ran its arm.
RecvStep == Len(queue') < Len(queue)

\* The kind of the node the zipper is focused on.
FocusKind == NodeAt(root, zipper).kind

\* The position of the focus among its siblings, and the number of children
\* of the focus.
FocusIndex == zipper[Len(zipper)]
FocusChildren == Len(ChildrenOf(NodeAt(root, zipper)))

(***************************************************************************)
(* Claims.                                                                 *)
(***************************************************************************)
\* C1: once the Control loop has written Mode = ShutDown, Mode is ShutDown in
\* every later state, whatever commands are still queued or sent later.
C1_ShutDownIsTerminal == [][mode = "ShutDown" => mode' = "ShutDown"]_vars

\* C2: after the Control loop has processed a ShutDown command, under fair
\* scheduling the Input loop and the Control loop both eventually return.
C2_LoopsReturnAfterShutDown ==
    (mode = "ShutDown") ~> (inputPc = "done" /\ controlPc = "done")

\* C3: every change of Mode follows the transition table: Mode becomes Insert
\* or Travel only from Normal, and from Insert or Travel it changes only to
\* Normal or ShutDown.
C3_ModeFollowsTable ==
    [][mode' # mode =>
        /\ (mode' \in {"Insert", "Travel"} => mode = "Normal")
        /\ (mode \in {"Insert", "Travel"} => mode' \in {"Normal", "ShutDown"})]_vars

\* C4: Control applies commands in exactly the order Input sent them: the
\* commands applied so far, followed by those still on the channel, are the
\* commands sent so far (nothing lost, duplicated or reordered).
C4_AppliedInSendOrder == sentLog = appliedLog \o queue

\* C4 witness: two different commands have been applied in send order while
\* a third still waits on the channel.
C4_Witness ==
    /\ Len(appliedLog) = 2
    /\ appliedLog[1] # appliedLog[2]
    /\ Len(queue) = 1
    /\ queue[1] # appliedLog[2]

C6_NavigationMovesFocus ==
    [][(RecvStep /\ zipper # <<>>) =>
        LET op == Head(queue).op
        IN /\ (op = "NextChar" /\ FocusKind = "Char" /\ FocusIndex + 1 < ZipSiblings(root, zipper))
                => zipper' = [zipper EXCEPT ![Len(zipper)] = @ + 1]
           /\ (op = "PrevChar" /\ FocusKind = "Char" /\ FocusIndex > 0)
                => zipper' = [zipper EXCEPT ![Len(zipper)] = @ - 1]
           /\ (op = "NextLine" /\ FocusKind = "Line" /\ FocusIndex + 1 < ZipSiblings(root, zipper))
                => zipper' = [zipper EXCEPT ![Len(zipper)] = @ + 1]
           /\ (op = "PrevLine" /\ FocusKind = "Line" /\ FocusIndex > 0)
                => zipper' = [zipper EXCEPT ![Len(zipper)] = @ - 1]]_vars

\* The characters of the Span that holds the focused Char, in tree r.
FocusSpanChars(r, z) == CharsOf(NodeAt(r, ZipParent(z)))

\* C7: when Control processes Insert(ch) while Mode is Insert and a Char is
\* focused, the parent Span gains exactly one Character ch at the focus
\* position.
C7_InsertAddsCharacter ==
    [][(RecvStep /\ Head(queue).op = "Insert" /\ mode = "Insert" /\ FocusKind = "Char") =>
        FocusSpanChars(root', zipper) =
            KeepBefore(FocusSpanChars(root, zipper), FocusIndex)
            \o <<Head(queue).ch>>
            \o DrainFrom(FocusSpanChars(root, zipper), FocusIndex)]_vars

\* C8: each Travel navigation command replaces the zipper by the result of
\* its zipper method; none of the six is a no-op when the target exists.
C8_TravelCommandsMove ==
    [][RecvStep =>
        LET op == Head(queue).op
            n  == FocusChildren
        IN /\ op = "ToFirstChild" => zipper' = ZipChild(root, zipper, 0)
           /\ op = "ToParent" => zipper' = ZipParent(zipper)
           /\ op = "ToLeftSibling" => zipper' = ZipMoveLeft(zipper)
           /\ op = "ToRightSibling" => zipper' = ZipMoveRight(root, zipper)
           /\ (op = "ToLastChild" /\ n > 0) => zipper' = Append(zipper, n - 1)
           /\ (op = "ToMiddleChild" /\ n > 0) => zipper' = Append(zipper, n \div 2)]_vars

\* C9: in Insert mode handle_insert translates every printable character key
\* to Insert(ch), Enter to NewLine, Backspace to Backspace, Delete to Delete
\* and Ctrl-Enter to NewLineBefore.
C9_InsertKeysTranslated ==
    [][(TranslateStep /\ mode = "Insert") =>
        /\ (event.type = "Key" /\ event.code = "Char")
              => queue' = Send(queue, Insert(event.ch))
        /\ event = KeyCode("Enter") => queue' = Send(queue, Cmd("NewLine"))
        /\ event = KeyCode("Backspace") => queue' = Send(queue, Cmd("Backspace"))
        /\ event = KeyCode("Delete") => queue' = Send(queue, Cmd("Delete"))
        /\ event = CtrlKey("Enter") => queue' = Send(queue, Cmd("NewLineBefore"))]_vars

\* C10: when the Input loop reads Resize(cols, rows), afterwards
\* Root.area = Rect(0, 0, cols, rows); handling the event sends no command
\* and leaves Mode and Root's child list unchanged.
C10_ResizeSetsRootArea ==
    /\ []((inputPc = "translate" /\ event.type = "Resize")
            => root.area = Rect(0, 0, event.cols, event.rows))
    /\ [][ResizeStep =>
            /\ root'.area = Rect(0, 0, event.cols, event.rows)
            /\ root'.children = root.children
            /\ root'.split_dir = root.split_dir
            /\ mode' = mode
            /\ queue' = queue]_vars
    /\ [][(TranslateStep /\ event.type = "Resize") =>
            /\ root' = root
            /\ mode' = mode
            /\ queue' = queue]_vars

\* C10 witness: a Resize(20, 5) has been handled while a command waits on
\* the channel: the area is the new one and the tree below Root is the
\* initial one.
C10_Witness ==
    /\ inputPc = "translate"
    /\ event = Resize(20, 5)
    /\ root.area = Rect(0, 0, 20, 5)
    /\ root.children = InitRoot.children
    /\ queue # <<>>

(***************************************************************************)
(* The tree as the nodes themselves give it, for stating what a move of    *)
(* the zipper should reach.                                                *)
(***************************************************************************)
\* The node whose child list holds n, and n's position in that list (from 1).
TreeParent(h, n) == CHOOSE p \in DOMAIN h : n \in Range(h[p].kids)
TreeIndex(h, n) == CHOOSE i \in 1..Len(h[TreeParent(h, n)].kids) : h[TreeParent(h, n)].kids[i] = n

\* The sibling after / before n, if any (Option); the root has none.
TreeRightSibling(h, n) ==
    IF n = RootNode THEN None
    ELSE LET kids == h[TreeParent(h, n)].kids
             i    == TreeIndex(h, n)
         IN IF i < Len(kids) THEN Some(kids[i + 1]) ELSE None

TreeLeftSibling(h, n) ==
    IF n = RootNode THEN None
    ELSE LET kids == h[TreeParent(h, n)].kids
             i    == TreeIndex(h, n)
         IN IF i > 1 THEN Some(kids[i - 1]) ELSE None

\* The parent's right / left sibling, if any (Option).
TreeRightAunt(h, n) ==
    IF n = RootNode THEN None ELSE TreeRightSibling(h, TreeParent(h, n))

TreeLeftAunt(h, n) ==
    IF n = RootNode THEN None ELSE TreeLeftSibling(h, TreeParent(h, n))

\* C11: from every zipper reached by daughter, sister and cousin moves,
\* mother() returns Moved with a zipper focused on the node from whose child
\* list the current focus was taken; on the root zipper it returns DidntMove
\* with the root zipper unchanged.
C11_MotherReturnsParent ==
    [][call'.op = "mother" =>
        IF lz.focus = RootNode
        THEN outcome' = "DidntMove" /\ lz' = lz
        ELSE /\ outcome' = "Moved"
             /\ lz'.focus = TreeParent(heap, lz.focus)
             /\ lz.focus \in Range(lz'.children)]_vars

\* C11 witness: mother() has moved up to the first Text from a line below it.
C11_Witness ==
    /\ call.op = "mother"
    /\ outcome = "Moved"
    /\ lz.focus = 2
    /\ lz.previous # None

\* C12: daughter(index) on a zipper with n > 0 children returns Moved,
\* focused on children[k] with k = min(index, n - 1), left = children[0..k]
\* and right = children[k+1..n]; with n = 0 it returns DidntMove and the
\* zipper unchanged; no index makes it panic.
C12_DaughterClampsIndex ==
    [][call'.op = "daughter" =>
        LET n == Len(lz.children)
            k == Min(call'.index, n - 1)
        IN IF n = 0
           THEN outcome' = "DidntMove" /\ lz' = lz
           ELSE /\ outcome' = "Moved"
                /\ lz'.focus = lz.children[k + 1]
                /\ lz'.left = SubSeq(lz.children, 1, k)
                /\ lz'.right = SubSeq(lz.children, k + 2, n)]_vars

\* C12 witness: daughter(usize::MAX) on the root has landed on the last of
\* its three children.
C12_Witness ==
    /\ call.op = "daughter"
    /\ call.index = usize_MAX
    /\ outcome = "Moved"
    /\ lz.focus = 4
    /\ lz.left = <<2, 3>>
    /\ lz.right = <<>>

\* C13: left_sister (right_sister) returns Moved focused on the immediately
\* preceding (following) sibling when there is one, and DidntMove with the
\* same focus, left and right at the first (last) sibling: no wrap-around,
\* no sibling skipped.
C13_SisterMovesOneStep ==
    [][/\ call'.op = "left_sister" =>
            IF lz.left # <<>>
            THEN /\ outcome' = "Moved"
                 /\ Some(lz'.focus) = TreeLeftSibling(heap, lz.focus)
                 /\ lz'.focus = lz.left[Len(lz.left)]
                 /\ lz'.left = SubSeq(lz.left, 1, Len(lz.left) - 1)
                 /\ lz'.right = <<lz.focus>> \o lz.right
            ELSE /\ outcome' = "DidntMove"
                 /\ TreeLeftSibling(heap, lz.focus) = None
                 /\ lz'.focus = lz.focus /\ lz'.left = lz.left /\ lz'.right = lz.right
       /\ call'.op = "right_sister" =>
            IF lz.right # <<>>
            THEN /\ outcome' = "Moved"
                 /\ Some(lz'.focus) = TreeRightSibling(heap, lz.focus)
                 /\ lz'.focus = Head(lz.right)
                 /\ lz'.left = Append(lz.left, lz.focus)
                 /\ lz'.right = Tail(lz.right)
            ELSE /\ outcome' = "DidntMove"
                 /\ TreeRightSibling(heap, lz.focus) = None
                 /\ lz'.focus = lz.focus /\ lz'.left = lz.left /\ lz'.right = lz.right]_vars

\* C13 witness: right_sister() was called on the last of the root's three
\* children and did not move.
C13_Witness ==
    /\ call.op = "right_sister"
    /\ outcome = "DidntMove"
    /\ lz.focus = 4
    /\ lz.left = <<2, 3>>

\* C14: when the focus has no right (left) sibling, right_sister_or_cousin
\* (left_sister_or_cousin) returns a zipper focused on the first (last)
\* child of the parent's right (left) sibling; when the focus is the root,
\* the parent has no such sibling or that sibling has no children, it
\* returns DidntMove with the original zipper: same focus, left, right,
\* children and breadcrumb.
C14_CousinOrSelf ==
    [][/\ (call'.op = "right_sister_or_cousin" /\ TreeRightSibling(heap, lz.focus) = None) =>
            LET aunt == TreeRightAunt(heap, lz.focus)
            IN IF aunt # None /\ heap[UnwrapOr(aunt, RootNode)].kids # <<>>
               THEN outcome' = "Moved" /\ lz'.focus = Head(heap[aunt[1]].kids)
               ELSE outcome' = "DidntMove" /\ lz' = lz
       /\ (call'.op = "left_sister_or_cousin" /\ TreeLeftSibling(heap, lz.focus) = None) =>
            LET aunt == TreeLeftAunt(heap, lz.focus)
            IN IF aunt # None /\ heap[UnwrapOr(aunt, RootNode)].kids # <<>>
               THEN /\ outcome' = "Moved"
                    /\ lz'.focus = heap[aunt[1]].kids[Len(heap[aunt[1]].kids)]
               ELSE outcome' = "DidntMove" /\ lz' = lz]_vars

\* C14 witness: right_sister_or_cousin() has moved to the only span of the
\* second line, which has no sibling: it was reached as a cousin.
C14_Witness ==
    /\ call.op = "right_sister_or_cousin"
    /\ outcome = "Moved"
    /\ lz.focus = 10
    /\ lz.previous[1].direction = "Parent"
    /\ lz.previous[1].zipper.focus = 6

\* C15: on an unmodified tree, for any non-root zipper z with i the number
\* of its left siblings, z.mother() followed by daughter(i) gives a zipper
\* with the same focus, left, right and children as z.
C15_UpDownRoundTrip ==
    [][(call'.op = "mother.daughter" /\ lz.focus # RootNode /\ heap = InitHeap) =>
        /\ outcome' = "Moved"
        /\ lz'.focus = lz.focus
        /\ lz'.left = lz.left
        /\ lz'.right = lz.right
        /\ lz'.children = lz.children]_vars

\* C15 witness: the round trip was made from the first span of the first
\* line after coming back to it from its right sister.
C15_Witness ==
    /\ call.op = "mother.daughter"
    /\ outcome = "Moved"
    /\ lz.focus = 8
    /\ lz.right = <<9>>
    /\ heap = InitHeap

\* The wrappers of zipper.rs lines 209-264 that move and highlight.
MoveOps ==
    {"move_to_child", "try_move_left", "try_move_right", "go_back_to_parent",
     "move_left_or_cousin", "move_right_or_cousin"}

\* C16: after each of move_to_child, try_move_left, try_move_right,
\* go_back_to_parent, move_left_or_cousin and move_right_or_cousin has
\* returned, the node focused before the call (if it is not the new focus)
\* has the default style and the node focused after it has bg = White and
\* fg = Black.
C16_MoveHighlightsFocus ==
    [][call'.op \in MoveOps =>
        /\ heap'[lz'.focus].style = HighlightStyle
        /\ (lz.focus # lz'.focus => heap'[lz.focus].style = DefaultStyle)]_vars

\* A Char is highlighted when its style is the highlight style; a Span or a
\* Line, which have no style of their own, when they have children and all
\* of them are highlighted (what highlight() on them brings about).
RECURSIVE IsHighlighted(_)
IsHighlighted(n) ==
    CASE n.kind = "Char" -> n.style = HighlightStyle
      [] n.kind \in {"Span", "Line"} ->
            /\ ChildrenOf(n) # <<>>
            /\ \A i \in 1..Len(ChildrenOf(n)) : IsHighlighted(ChildrenOf(n)[i])
      [] OTHER -> FALSE

IsPrefix(a, b) == Len(a) <= Len(b) /\ SubSeq(b, 1, Len(a)) = a

\* The node at path p is the focus, above it or below it.
OnFocusPath(p) == hlFocus # None /\ (IsPrefix(p, hlFocus[1]) \/ IsPrefix(hlFocus[1], p))

\* C17: once every task spawned by the highlight() / no_highlight() calls of
\* navigation has finished, every parent has at most one highlighted child
\* and no node off the current focus path is highlighted.
C17_HighlightUnique ==
    tasks = EmptyBag =>
        \A p \in PathsBelow(root, <<>>) :
            /\ Cardinality({i \in 1..Len(ChildrenOf(NodeAt(root, p))) :
                              IsHighlighted(ChildrenOf(NodeAt(root, p))[i])}) <= 1
            /\ IsHighlighted(NodeAt(root, p)) => OnFocusPath(p)

\* C18: whenever the zipper is focused on a Line of a Text, the line's index
\* i satisfies scroll_offset <= i < scroll_offset + height for that Text.
C18_FocusedLineInViewport ==
    heap[lz.focus].kind = "Line" =>
        LET text == heap[TreeParent(heap, lz.focus)]
            i    == TreeIndex(heap, lz.focus) - 1
        IN text.scroll_offset <= i /\ i < text.scroll_offset + text.height

\* C19: Text::add_line(line, i) and Line::add_span(span, i) leave the child
\* list equal to old[0..m] ++ [new] ++ old[m..] with m = min(i, len): one
\* element longer, every previous child kept in its relative order.
C19_AddKeepsChildren ==
    [][call'.op \in {"add_line", "add_span"} =>
        LET old == target.kids
            m   == Min(call'.index, Len(old))
        IN target'.kids = SubSeq(old, 1, m) \o <<call'.child>> \o SubSeq(old, m + 1, Len(old))]_vars

\* The (parent kind, child kind) pairs try_add_child accepts.
PermittedPairs ==
    {<<"Layout", "Layout">>, <<"Layout", "Line">>, <<"Line", "Span">>, <<"Span", "Char">>}

\* C20: try_add_child on a zipper succeeds iff (focus kind, child kind) is a
\* permitted pair; for every other pair it returns an error value to the
\* caller without panicking, and the tree and the zipper's children
\* snapshot are unchanged.
C20_TryAddChildChecksKinds ==
    [][call'.op = "try_add_child" =>
        IF <<heap[lz.focus].kind, heap[call'.child].kind>> \in PermittedPairs
        THEN outcome' = "Ok"
        ELSE /\ outcome' = "Err"
             /\ heap' = heap
             /\ lz'.children = lz.children]_vars

(***************************************************************************)
(* add_window and add_text of primatives.rs, LayoutZipper::add_child.      *)
(***************************************************************************)
\* C26: Root::add_window(dir, i) and Window::add_window(dir, i) add exactly
\* one new Window for every i: the child list becomes
\* old[0..m] ++ [new] ++ old[m..] with m = min(i, len), also when i >= len,
\* and the call never panics.
C26_AddWindowAddsOne ==
    [][call'.op \in {"Root::add_window", "Window::add_window"} =>
         /\ outcome' # "Panic"
         /\ target'.kids = InsertAt(target.kids, call'.child, call'.index)]_vars

\* C27: Window::add_text(content, i) inserts exactly one new Text at
\* min(i, len) for every i, including i < len.
C27_AddTextInsertsOne ==
    [][call'.op = "Window::add_text" =>
         target'.kids = InsertAt(target.kids, call'.child, call'.index)]_vars

\* C28: LayoutZipper::add_child(node, i) returns a zipper whose children
\* snapshot is old[0..m] ++ [node] ++ old[m..] with m = min(i, len): it
\* grows by one, no previous child is dropped or replaced.
C28_AddChildGrowsSnapshot ==
    [][call'.op = "add_child" =>
         lz'.children = InsertAt(lz.children, call'.child, call'.index)]_vars

(***************************************************************************)
(* The catch-ignore moves of LayoutZipper.                                 *)
(***************************************************************************)
\* C30: move_left_catch_ignore returns a zipper focused on the left sibling
\* of the focus when there is one and on the same focus otherwise; it never
\* moves right.
C30_MoveLeftCatchIgnoreGoesLeft ==
    [][call'.op = "move_left_catch_ignore" =>
         /\ TreeLeftSibling(heap, lz.focus) # None =>
                Some(lz'.focus) = TreeLeftSibling(heap, lz.focus)
         /\ TreeLeftSibling(heap, lz.focus) = None => lz'.focus = lz.focus
         /\ Some(lz'.focus) # TreeRightSibling(heap, lz.focus)]_vars

(***************************************************************************)
(* The Zipper of main.rs.                                                  *)
(***************************************************************************)
\* C29: Zipper::move_right of main.rs on a zipper with r >= 1 right
\* siblings returns Success focused on the nearest right sibling, with
\* left = old left ++ [old focus] and right = old right without its first
\* element; it never panics, r = 1 included.
C29_MoveRightTakesNearest ==
    [][call'.op = "Zipper::move_right" /\ Len(lz.right) >= 1 =>
         /\ outcome' = "Success"
         /\ lz'.focus = Head(lz.right)
         /\ lz'.left = Append(lz.left, lz.focus)
         /\ lz'.right = Tail(lz.right)]_vars

(***************************************************************************)
(* async_render.                                                           *)
(***************************************************************************)
\* The 0-based indices of the lines in the viewport of a Text.
ViewportLines(t) ==
    {i \in 0..(Len(t.kids) - 1) :
        t.scroll_offset <= i /\ i < Min(Len(t.kids), t.scroll_offset + t.height)}

\* C22: for every Text with n lines, scroll_offset >= 0 and height >= 0
\* (height = 0 included), async_render never fails and its snapshot holds
\* exactly the lines i with scroll_offset <= i < min(n, scroll_offset + height).
C22_TextRendersViewport ==
    (render # None /\ target.kind = "Text") =>
        /\ render.pc # "panicked"
        /\ render.pc = "done" =>
              {render.result[k][1] : k \in 1..Len(render.result)}
                  = {i + 1 : i \in ViewportLines(target)}

C24_SnapshotNotTorn ==
    (render # None /\ render.pc = "done") =>
        \E r \in render.seen :
            \A e \in render.snapshot : NodeAt(r, e[1]) = e[2]

(***************************************************************************)
(* The locks of Node::try_add_child.                                       *)
(***************************************************************************)
\* A task holds the write lock of its mom and the lock it waits for is
\* taken.
HoldsAndWaits(t) ==
    /\ lockState.pc[t] = "child.read"
    /\ lockState.writer[lockState.args[t].mom] = t
    /\ lockState.writer[lockState.args[t].child] # "free"

\* C21: no task that holds a read or write lock on one tree node is waiting
\* to acquire a lock on another node or on the same node; hence no tree
\* operation, try_add_child with parent and child the same node included,
\* can block forever.
C21_NoHoldAndWait == \A t \in Callers : ~HoldsAndWaits(t)

(***************************************************************************)
(* The main loop of main.rs.                                               *)
(***************************************************************************)
\* A `q` Press event is on the input channel.
QuitKeyDelivered ==
    \E k \in 1..Len(mainProg.input) : mainProg.input[k] = MainKey("q", "Press")

FlipQuiet == \A w \in Writers : lockState.pc[w] \in {"idle", "write.buf", "done"}

\* C31: for any interleaving of readers and writers in which every guard
\* is dropped, under fair scheduling every read() call, every write() call
\* and every drop task completes: the three locks never deadlock.
C31_FlipFlopCompletes ==
    \A p \in Procs : (lockState.pc[p] # "idle") ~> (lockState.pc[p] = "done")

\* The write() calls made so far were made one after the other, each after
\* the guard of the one before was dropped, as one writer makes them.
OneWriter ==
    \A v \in Writers : \A w \in Writers \ {v} :
        \/ lockState.pc[v] = "idle"
        \/ lockState.pc[w] = "idle"
        \/ v \in lockState.prior[w]
        \/ w \in lockState.prior[v]

\* C32: with a single writer, once its guard has been dropped and its drop
\* task has switched the flag, every read() that starts afterwards returns
\* the value that writer wrote, never the older one.
C32_ReadAfterSwitchIsNew ==
    \A r \in Readers : \A w \in Writers :
        (/\ OneWriter
         /\ lockState.pc[r] \in {"reading", "done"}
         /\ w \in lockState.after[r]
         /\ ~ \E v \in lockState.after[r] : w \in lockState.prior[v])
        => w \in lockState.got[r]

\* C33: no update is lost: once all guards are dropped and all drop tasks
\* have completed, the value read() returns reflects every completed
\* write, also when a writer called write() while an earlier drop task had
\* not finished.
C33_NoLostUpdate ==
    (\A w \in Writers : lockState.pc[w] \in {"idle", "done"}) =>
        {w \in Writers : lockState.pc[w] = "done"}
            \subseteq lockState.buf[ReadSource(lockState.flag)]

\* C34: whenever no write guard is held and no drop task is pending, the
\* flip buffer and the flop buffer hold equal values.
C34_BuffersEqualWhenQuiet ==
    FlipQuiet => lockState.buf["flip"] = lockState.buf["flop"]

\* C34 witness: a write has been synchronised into both buffers.
C34_Witness ==
    /\ FlipQuiet
    /\ lockState.pc["w1"] = "done"
    /\ lockState.buf["flip"] = {"w1"}
    /\ lockState.buf["flop"] = {"w1"}

(***************************************************************************)
(* Keys read after a mode-change command was sent.                         *)
(***************************************************************************)
RECURSIVE ModeAfter(_, _)
\* The Mode once Control has applied the commands of q, one after the
\* other, to Mode m.
ModeAfter(m, q) ==
    IF q = <<>> THEN m ELSE ModeAfter(ControlMode(m, Head(q)), Tail(q))

\* C35: every key event the Input loop reads after it has sent a
\* mode-change command is translated with the bindings of the new mode,
\* also when Control has not applied the command yet: `i` then `X` from
\* Normal yields InsertMode followed by Insert('X').
C35_KeysUseNewMode ==
    [][(TranslateStep /\ ModeAfter(mode, queue) # "ShutDown") =>
        LET msg == Translate(ModeAfter(mode, queue), mod_keys, event)
        IN queue' = IF msg = NoCommand THEN queue ELSE Send(queue, msg)]_vars

(***************************************************************************)
(* LayoutZipper::try_add_child and the node the tree stores.               *)
(***************************************************************************)
\* C36: after LayoutZipper::try_add_child(child, i) succeeds the children
\* snapshot equals the focus node's actual child list, same length and
\* order, and its entry at min(i, len) is the very node now stored in the
\* tree: a style write made through the zipper's child is visible in the
\* tree.
C36_SnapshotSharesAddedChild ==
    [][(call'.op = "try_add_child" /\ outcome' = "Ok") =>
        LET m      == Min(call'.index, Len(lz.children))
            zchild == lz'.children[m + 1]
            kids   == heap'[lz'.focus].kids
        IN /\ Len(lz'.children) = Len(kids)
           /\ lz'.children = kids
           /\ NodeHighlight(heap', zchild)[kids[m + 1]].style = HighlightStyle]_vars

(***************************************************************************)
(* The sibling lists of a LayoutZipper and its mother's children.          *)
(***************************************************************************)
\* left ++ [focus] ++ right of a zipper.
SiblingRow(z) == z.left \o <<z.focus>> \o z.right

\* C37: for every LayoutZipper reached from the root zipper by daughter,
\* left_sister, right_sister, mother and cousin moves on an unmodified
\* tree, left ++ [focus] ++ right equals, in order, without duplicates or
\* omissions, the children snapshot of the zipper returned by mother().
C37_SiblingsAreMothersChildren ==
    SiblingRow(lz) = MoveResultUnwrap(mother(lz)).children

\* C37, for the zippers that have a mother: when mother() returns Moved,
\* left ++ [focus] ++ right equals the children snapshot of the zipper it
\* returns.
C37_SiblingsAreMothersChildrenBelowRoot ==
    mother(lz).tag = "Moved" =>
        SiblingRow(lz) = mother(lz).zip.children

\* C37 witness: a zipper reached through a daughter and a sister move, with
\* a sibling on either side.
C37_Witness ==
    /\ mother(lz).tag = "Moved"
    /\ lz.previous # None
    /\ lz.previous[1].direction # "Parent"
    /\ lz.left # <<>>
    /\ lz.right # <<>>

(***************************************************************************)
(* Node::highlight and ARW<Char>::highlight next to a reader of the same   *)
(* node.  One caller awaits the calls one after the other; a reader takes  *)
(* the read lock of a node and copies its style.                           *)
(***************************************************************************)
\* A node of each kind of the tree of InitHeap, and its Characters.
StyledNodes == {1, 5, 8, 11}
StyledChars == {n \in StyledNodes : InitHeap[n].kind = "Char"}

\* wg.style.bg = Some(Color::White) and wg.style.fg = Some(Color::Black)
SetBg(h, n) == [h EXCEPT ![n].style.bg = "White"]
SetFg(h, n) == [h EXCEPT ![n].style.fg = "Black"]

StyleInit ==
    /\ PipeInit
    /\ NoCallYet
    /\ render = None
    /\ mainProg = None
    /\ heap = InitHeap
    /\ lz = None
    /\ target = None
    /\ lockState = [pc |-> "idle", node |-> RootNode, held |-> FALSE, obs |-> None]

StyleFrame ==
    /\ UNCHANGED <<lz, call, outcome, nCalls, tasks, hlFocus, target, render, mainProg>>
    /\ UNCHANGED pipeVars

\* node.highlight().await is called: the match of zipper.rs line 144.
NodeHighlightCall ==
    /\ lockState.pc = "idle"
    /\ \E n \in StyledNodes : lockState' = [lockState EXCEPT !.pc = "node.bg", !.node = n]
    /\ UNCHANGED heap
    /\ StyleFrame

\* x.write().await.style.bg = Some(Color::White); the guard is a temporary
\* of the statement and is dropped at its end.
NodeHighlightBg ==
    /\ lockState.pc = "node.bg"
    /\ heap' = SetBg(heap, lockState.node)
    /\ lockState' = [lockState EXCEPT !.pc = "node.fg"]
    /\ StyleFrame

\* x.write().await.style.fg = Some(Color::Black); the call returns.
NodeHighlightFg ==
    /\ lockState.pc = "node.fg"
    /\ heap' = SetFg(heap, lockState.node)
    /\ lockState' = [lockState EXCEPT !.pc = "idle"]
    /\ StyleFrame

\* node.no_highlight().await: one statement under one guard.
NodeNoHighlightCall ==
    /\ lockState.pc = "idle"
    /\ \E n \in StyledNodes : heap' = NodeNoHighlight(heap, n)
    /\ UNCHANGED lockState
    /\ StyleFrame

\* ARW<Char>::highlight, line 222: let mut wg = self.write().await.
CharHighlightLock ==
    /\ lockState.pc = "idle"
    /\ \E n \in StyledChars :
        lockState' = [lockState EXCEPT !.pc = "char.bg", !.node = n, !.held = TRUE]
    /\ UNCHANGED heap
    /\ StyleFrame

\* ARW<Char>::highlight, line 223, under the guard.
CharHighlightBg ==
    /\ lockState.pc = "char.bg"
    /\ heap' = SetBg(heap, lockState.node)
    /\ lockState' = [lockState EXCEPT !.pc = "char.fg"]
    /\ StyleFrame

\* ARW<Char>::highlight, lines 224-225: the second field, then wg is
\* dropped.
CharHighlightFg ==
    /\ lockState.pc = "char.fg"
    /\ heap' = SetFg(heap, lockState.node)
    /\ lockState' = [lockState EXCEPT !.pc = "idle", !.held = FALSE]
    /\ StyleFrame

\* A reader: node.read().await is granted when no write guard of the node
\* is alive, and the style is copied.
ReaderRead ==
    /\ \E n \in StyledNodes :
        /\ ~ (lockState.held /\ lockState.node = n)
        /\ lockState' = [lockState EXCEPT
                           !.obs = Some([node   |-> n,
                                         style  |-> heap[n].style,
                                         during |-> lockState.pc])]
    /\ UNCHANGED heap
    /\ StyleFrame

StyleNext ==
    \/ NodeHighlightCall
    \/ NodeHighlightBg
    \/ NodeHighlightFg
    \/ NodeNoHighlightCall
    \/ CharHighlightLock
    \/ CharHighlightBg
    \/ CharHighlightFg
    \/ ReaderRead

StyleSpec == StyleInit /\ [][StyleNext]_vars

\* C38: Node::highlight is atomic for concurrent readers: no reader that
\* takes the node's read lock while highlight runs observes a partially
\* applied style, bg = White with fg not Black.
C38_HighlightNotTorn ==
    lockState.obs # None =>
        ~ (/\ lockState.obs[1].style.bg = "White"
           /\ lockState.obs[1].style.fg # "Black")

(***************************************************************************)
(* highlight() and then no_highlight() awaited on one Span or Line, the    *)
(* runtime running the spawned tasks in any order.                         *)
(***************************************************************************)
\* The Spans and Lines of the document.
SpawningNodes(r) == {p \in PathsBelow(r, <<>>) : NodeAt(r, p).kind \in {"Span", "Line"}}

\* node.highlight().await on a Span or Line: the call returns once the
\* tasks are spawned.
HighlightAwaited ==
    /\ call.op = "none"
    /\ \E path \in SpawningNodes(root) :
        LET r == WidgetCall(root, tasks, "highlight", path)
        IN /\ root' = r.root
           /\ tasks' = r.tasks
           /\ hlFocus' = Some(path)
    /\ call' = [NoCall EXCEPT !.op = "highlight"]
    /\ UNCHANGED <<heap, lz, outcome, nCalls, target>>
    /\ UNCHANGED pipeRest
    /\ UNCHANGED extVars

\* node.no_highlight().await on the same node, after highlight() returned.
NoHighlightAwaited ==
    /\ call.op = "highlight"
    /\ LET r == WidgetCall(root, tasks, "no_highlight", hlFocus[1])
       IN /\ root' = r.root
          /\ tasks' = r.tasks
    /\ call' = [NoCall EXCEPT !.op = "no_highlight"]
    /\ UNCHANGED <<heap, lz, outcome, nCalls, hlFocus, target>>
    /\ UNCHANGED pipeRest
    /\ UNCHANGED extVars

ClearRunTask == RunTask /\ UNCHANGED extVars

ClearNext == HighlightAwaited \/ NoHighlightAwaited \/ ClearRunTask

ClearSpec == Init /\ [][ClearNext]_vars

\* The Characters at or below the node at `path`.
CharsBelow(r, path) ==
    {p \in PathsBelow(NodeAt(r, path), path) : NodeAt(r, p).kind = "Char"}

\* C39: when highlight() is awaited on a Span or Line and afterwards
\* no_highlight() is awaited on the same node, then once all spawned tasks
\* have finished every Character of the node has the default style: the
\* last call wins under every scheduling.
C39_LastCallWins ==
    (call.op = "no_highlight" /\ tasks = EmptyBag) =>
        \A p \in CharsBelow(root, hlFocus[1]) : NodeAt(root, p).style = DefaultStyle

====
